---- MODULE Spec2Model ----
(***************************************************************************)
(* Markyfy: Markdown to HTML.  The block tokenizer, the inline tokenizer,   *)
(* the list scan and the HTML renderer of the Markyfy class, as operators  *)
(* over strings, and the calls parse / parseInline / parseList as state     *)
(* machines over them.                                                      *)
(*                                                                         *)
(* Strings are TLA+ strings.  Positions are 0-based, as in the source:      *)
(* CharAt(s, i) is s[i], Slice(s, a, b) is s.slice(a, b).                   *)
(***************************************************************************)
EXTENDS Integers, Sequences, FiniteSets, TLC

VARIABLES
    markdown,   \* parse: the argument
    options,    \* this.options: [headerIds, sanitize]
    fault,      \* parse: the stage an exception escaped from ("none" so far)
    pc,         \* position of the running call
    mdLines,    \* tokenize: lines
    idx,        \* tokenize: the loop index i
    tokens,     \* tokenize: tokens
    html,       \* parse: the returned string ("" until the call returns)
    lineBefore, \* tokenize: i and tokens.length before the last iteration (idx -1: none)
    text,       \* parseInline: the argument
    i,          \* parseInline: scan position
    current,    \* parseInline: pending plain text
    itokens,    \* parseInline: tokens
    prev,       \* parseInline: the scan position before the last iteration (-1: none)
    llines,     \* parseList: lines
    scan,       \* parseList: the scan state (i, currentIndent, listStack, heap)
    before,     \* parseList: the scan state before the last iteration
    languages,  \* SyntaxHighlighter: this.languages, name -> definition
    hcode,      \* highlight: the argument code
    hlang,      \* highlight: the argument lang
    highlighted, \* highlight: the local of that name, then the returned value
    subject,    \* escapeHtml: the string first given to it
    escapes     \* escapeHtml: what successive applications returned, in order

vars == <<markdown, options, fault, pc, mdLines, idx, tokens, html, lineBefore,
          text, i, current, itokens, prev, llines, scan, before,
          languages, hcode, hlang, highlighted, subject, escapes>>

parseVars == <<markdown, options, fault, mdLines, idx, tokens, html, lineBefore>>

inlineVars == <<text, i, current, itokens, prev>>

listVars == <<llines, scan, before>>

highlightVars == <<languages, hcode, hlang, highlighted>>

escapeVars == <<subject, escapes>>

(***************************************************************************)
(* Bounds of the checked input domains.                                    *)
(***************************************************************************)
MaxPieces == 4

MaxLines == 3

MaxUrlPieces == 3

MaxHeaderPieces == 4

MaxListLines == 4

MaxCodePieces == 4

MaxEscapePieces == 3

\* The loop of tokenize does not end on every input: its iterations are
\* followed while tokens.length is below MaxTokens.
MaxTokens == 4


(***************************************************************************)
(* String primitives (String.prototype).                                   *)
(***************************************************************************)
Min(S) == CHOOSE x \in S : \A y \in S : x <= y

\* s[k]; out of range it is undefined, which equals no character.
CharAt(s, k) == IF k >= 0 /\ k < Len(s) THEN SubSeq(s, k + 1, k + 1) ELSE "undefined"

\* s.slice(a, b) for 0 <= a; an empty range gives "".
Slice(s, a, b) ==
    LET hi == IF b > Len(s) THEN Len(s) ELSE b
    IN IF a >= hi THEN "" ELSE SubSeq(s, a + 1, hi)

\* s.slice(a)
SliceFrom(s, a) == Slice(s, a, Len(s))

\* s.startsWith(p, k)
StartsWith(s, p, k) == k >= 0 /\ k + Len(p) <= Len(s) /\ SubSeq(s, k + 1, k + Len(p)) = p

RECURSIVE IndexOf(_, _, _)
\* s.indexOf(p, from), p non-empty
IndexOf(s, p, from) ==
    IF from + Len(p) > Len(s) THEN -1
    ELSE IF SubSeq(s, from + 1, from + Len(p)) = p THEN from
    ELSE IndexOf(s, p, from + 1)

\* The backquote character (U+0060).  A TLA+ string literal cannot hold it, so
\* the tilde stands for it throughout; no modelled input holds a tilde of its own.
BT == "~"

\* The fence of a code block: three backquotes.
Fence == BT \o BT \o BT

\* The white space of trim() and of \s, as far as the modelled inputs hold it.
WhiteSpace == {" ", "\t", "\n", "\r"}

\* The line terminators the regular expression "." does not match.
LineTerminators == {"\n", "\r"}

RECURSIVE SpaceRun(_, _)
\* the end of the run of white space that starts at k
SpaceRun(s, k) == IF k < Len(s) /\ CharAt(s, k) \in WhiteSpace THEN SpaceRun(s, k + 1) ELSE k

RECURSIVE SpaceRunBack(_, _)
\* the start of the run of white space that ends at k
SpaceRunBack(s, k) ==
    IF k > 0 /\ CharAt(s, k - 1) \in WhiteSpace THEN SpaceRunBack(s, k - 1) ELSE k

\* the length of the match of /^(\s*)/
LeadingSpace(s) == SpaceRun(s, 0)

IsBlank(s) == LeadingSpace(s) = Len(s)

\* s.trim()
Trim(s) == IF IsBlank(s) THEN "" ELSE Slice(s, LeadingSpace(s), SpaceRunBack(s, Len(s)))

RECURSIVE Split(_, _)
\* s.split(sep), sep one character
Split(s, sep) ==
    LET k == IndexOf(s, sep, 0)
    IN IF k = -1 THEN <<s>> ELSE <<Slice(s, 0, k)>> \o Split(SliceFrom(s, k + 1), sep)

RECURSIVE Join(_, _)
\* lines.join(sep)
Join(lines, sep) ==
    IF Len(lines) = 0 THEN ""
    ELSE IF Len(lines) = 1 THEN lines[1]
    ELSE lines[1] \o sep \o Join(Tail(lines), sep)

RECURSIVE Concat(_)
\* pieces.join("")
Concat(pieces) == IF Len(pieces) = 0 THEN "" ELSE pieces[1] \o Concat(Tail(pieces))

RECURSIVE ReplaceAll(_, _, _)
\* s.replace(/c/g, r), c one character
ReplaceAll(s, c, r) ==
    LET k == IndexOf(s, c, 0)
    IN IF k = -1 THEN s
       ELSE Slice(s, 0, k) \o r \o ReplaceAll(SliceFrom(s, k + 1), c, r)

UpperCase == "ABCDEFGHIJKLMNOPQRSTUVWXYZ"

LowerCase == "abcdefghijklmnopqrstuvwxyz"

Digits == "0123456789"

IsLower(c) == Len(c) = 1 /\ IndexOf(LowerCase, c, 0) # -1

IsUpper(c) == Len(c) = 1 /\ IndexOf(UpperCase, c, 0) # -1

IsDigit(c) == Len(c) = 1 /\ IndexOf(Digits, c, 0) # -1

LowerChar(c) == IF IsUpper(c) THEN CharAt(LowerCase, IndexOf(UpperCase, c, 0)) ELSE c

RECURSIVE ToLowerCase(_)
\* s.toLowerCase()
ToLowerCase(s) ==
    IF Len(s) = 0 THEN "" ELSE LowerChar(CharAt(s, 0)) \o ToLowerCase(SliceFrom(s, 1))

(***************************************************************************)
(* escapeHtml, slugify, sanitizeUrl.                                       *)
(***************************************************************************)
\* The four replacements that leave the ampersand alone.
EscapeButAmpersand(s) ==
    ReplaceAll(ReplaceAll(ReplaceAll(ReplaceAll(s,
        "<", "&lt;"), ">", "&gt;"), "\"", "&quot;"), "'", "&#039;")

\* Five replacements in the source's order: the ampersand first.
escapeHtml(s) ==
    ReplaceAll(ReplaceAll(ReplaceAll(ReplaceAll(ReplaceAll(s,
        "&", "&amp;"), "<", "&lt;"), ">", "&gt;"), "\"", "&quot;"), "'", "&#039;")

RECURSIVE StripNonSlug(_)
\* s.replace(/[^a-z0-9 -]/g, "")
StripNonSlug(s) ==
    IF Len(s) = 0 THEN ""
    ELSE LET c == CharAt(s, 0)
         IN (IF IsLower(c) \/ IsDigit(c) \/ c = " " \/ c = "-" THEN c ELSE "")
            \o StripNonSlug(SliceFrom(s, 1))

RECURSIVE CollapseRuns(_, _, _)
\* s.replace(/X+/g, "-") for the set X of characters
CollapseRuns(s, X, inRun) ==
    IF Len(s) = 0 THEN ""
    ELSE LET c == CharAt(s, 0)
         IN IF c \in X
            THEN (IF inRun THEN "" ELSE "-") \o CollapseRuns(SliceFrom(s, 1), X, TRUE)
            ELSE c \o CollapseRuns(SliceFrom(s, 1), X, FALSE)

\* A slug that keeps the case of its input: upper-case letters are then
\* stripped with the other characters outside a-z, 0-9, space and "-".
SlugifyKeepingCase(s) ==
    CollapseRuns(CollapseRuns(StripNonSlug(s), WhiteSpace, FALSE), {"-"}, FALSE)

slugify(s) ==
    CollapseRuns(CollapseRuns(StripNonSlug(ToLowerCase(s)), WhiteSpace, FALSE), {"-"}, FALSE)

\* new URL(url).protocol, or "invalid" when the constructor throws.  The
\* parser strips leading and trailing spaces, drops tabs and line breaks, reads
\* the scheme (a letter,
\* then letters, digits, "+", "-", "."), lower-cases it and requires ":".
\* Without a scheme there is no base to resolve against: it throws.  After a
\* scheme other than javascript the constructor can still throw on the rest
\* (http: with no host); UrlProtocol gives the scheme there too, and
\* sanitizeUrl returns the url either way.
UrlProtocol(url) ==
    LET u == ReplaceAll(ReplaceAll(ReplaceAll(Trim(url), "\t", ""), "\n", ""), "\r", "")
        k == IndexOf(u, ":", 0)
        IsSchemeChar(c) == IsLower(c) \/ IsUpper(c) \/ IsDigit(c) \/ c \in {"+", "-", "."}
    IN IF /\ k >= 1
          /\ (IsLower(CharAt(u, 0)) \/ IsUpper(CharAt(u, 0)))
          /\ \A j \in 0..(k - 1) : IsSchemeChar(CharAt(u, j))
       THEN ToLowerCase(Slice(u, 0, k + 1))
       ELSE "invalid"

\* A sanitizer that looks for the literal prefix instead of parsing the url.
SanitizeByPrefix(url) == IF StartsWith(url, "javascript:", 0) THEN "" ELSE url

sanitizeUrl(url) == IF UrlProtocol(url) = "javascript:" THEN "" ELSE url

(***************************************************************************)
(* parseInline: one left-to-right scan.  A scan state is                    *)
(* [i, current, tokens]; InlineStep is one iteration of the while loop.     *)
(***************************************************************************)
TextToken(s) == [type |-> "text", raw |-> s, text |-> s]

\* The pending text dropped instead of pushed.
FlushNothing(st) == st.tokens

\* if (current) tokens.push({type: "text", ...})
Flush(st) == IF st.current # "" THEN st.tokens \o <<TextToken(st.current)>> ELSE st.tokens

\* The bold branch: the position of the closing marker, or -1.
BoldEnd(s, k) ==
    IF StartsWith(s, "**", k) \/ StartsWith(s, "__", k)
    THEN IndexOf(s, Slice(s, k, k + 2), k + 2)
    ELSE -1

\* An italic branch whose search for the closing character starts at the
\* opening character itself.
ItalicEndFromOpening(s, k) ==
    IF CharAt(s, k) = "*" \/ CharAt(s, k) = "_" THEN IndexOf(s, CharAt(s, k), k) ELSE -1

\* The italic branch: the position of the closing character, or -1.
ItalicEnd(s, k) ==
    IF CharAt(s, k) = "*" \/ CharAt(s, k) = "_" THEN IndexOf(s, CharAt(s, k), k + 1) ELSE -1

\* The inline code branch.
CodeEnd(s, k) == IF CharAt(s, k) = BT THEN IndexOf(s, BT, k + 1) ELSE -1

LinkTitleEnd(s, k) == IF CharAt(s, k) = "[" THEN IndexOf(s, "]", k) ELSE -1

\* The link branch: the position of the closing parenthesis, or -1.
LinkEnd(s, k) ==
    LET titleEnd == LinkTitleEnd(s, k)
    IN IF titleEnd # -1 /\ CharAt(s, titleEnd + 1) = "(" THEN IndexOf(s, ")", titleEnd + 2) ELSE -1

\* A loop body that tries the italic branch before the bold branch.
ItalicFirstBranch(s, k) ==
    IF ItalicEnd(s, k) # -1 THEN "italic"
    ELSE IF BoldEnd(s, k) # -1 THEN "bold"
    ELSE IF CodeEnd(s, k) # -1 THEN "code"
    ELSE IF LinkEnd(s, k) # -1 THEN "link"
    ELSE "char"

\* Which branch of the loop body runs at position k: the first that matches.
InlineBranch(s, k) ==
    IF BoldEnd(s, k) # -1 THEN "bold"
    ELSE IF ItalicEnd(s, k) # -1 THEN "italic"
    ELSE IF CodeEnd(s, k) # -1 THEN "code"
    ELSE IF LinkEnd(s, k) # -1 THEN "link"
    ELSE "char"

InlineStep(s, st) ==
    LET k == st.i
        b == InlineBranch(s, k)
    IN CASE b = "bold" ->
              LET end == BoldEnd(s, k)
              IN [i |-> end + 2, current |-> "",
                  tokens |-> Flush(st) \o <<[type |-> "bold", raw |-> Slice(s, k, end + 2),
                                             text |-> Slice(s, k + 2, end)]>>]
         [] b = "italic" ->
              LET end == ItalicEnd(s, k)
              IN [i |-> end + 1, current |-> "",
                  tokens |-> Flush(st) \o <<[type |-> "italic", raw |-> Slice(s, k, end + 1),
                                             text |-> Slice(s, k + 1, end)]>>]
         [] b = "code" ->
              LET end == CodeEnd(s, k)
              IN [i |-> end + 1, current |-> "",
                  tokens |-> Flush(st) \o <<[type |-> "code", raw |-> Slice(s, k, end + 1),
                                             text |-> Slice(s, k + 1, end)]>>]
         [] b = "link" ->
              LET titleEnd == LinkTitleEnd(s, k)
                  urlEnd == LinkEnd(s, k)
              IN [i |-> urlEnd + 1, current |-> "",
                  tokens |-> Flush(st) \o <<[type |-> "link", raw |-> Slice(s, k, urlEnd + 1),
                                             text |-> Slice(s, k + 1, titleEnd),
                                             url |-> Slice(s, titleEnd + 2, urlEnd)]>>]
         [] OTHER ->
              [i |-> k + 1, current |-> st.current \o CharAt(s, k), tokens |-> st.tokens]

RECURSIVE InlineLoop(_, _)
InlineLoop(s, st) == IF st.i < Len(s) THEN InlineLoop(s, InlineStep(s, st)) ELSE Flush(st)

parseInline(s) == InlineLoop(s, [i |-> 0, current |-> "", tokens |-> <<>>])

(***************************************************************************)
(* Regular expressions of the block tokenizer.  A match result is <<>> (no  *)
(* match) or the one-element sequence of the capture the caller reads.      *)
(***************************************************************************)
NoLineTerminator(s) == IndexOf(s, "\n", 0) = -1 /\ IndexOf(s, "\r", 0) = -1

\* /^\s+(.+)$/ on s: the greedy \s+ takes the whole run of white space, and
\* gives one character back when the run reaches the end of s; (.+) must then
\* reach the end of s without meeting a line terminator.
SpaceThenText(s) ==
    LET w == LeadingSpace(s)
        j == IF w < Len(s) THEN w ELSE w - 1
    IN IF j >= 1 /\ NoLineTerminator(SliceFrom(s, j)) THEN <<SliceFrom(s, j)>> ELSE <<>>

\* /^\s+./ on s (no anchor at the end)
SpaceThenChar(s) ==
    \E j \in 1..LeadingSpace(s) : j < Len(s) /\ CharAt(s, j) \notin LineTerminators

RECURSIVE RunEnd(_, _, _)
RunEnd(s, c, k) == IF k < Len(s) /\ CharAt(s, k) = c THEN RunEnd(s, c, k + 1) ELSE k

\* the length of the run of c at the start of s
RunLength(s, c) == RunEnd(s, c, 0)

RECURSIVE DigitRunEnd(_, _)
DigitRunEnd(s, k) == IF k < Len(s) /\ IsDigit(CharAt(s, k)) THEN DigitRunEnd(s, k + 1) ELSE k

\* the length of the run of digits at the start of s
DigitRun(s) == DigitRunEnd(s, 0)

\* /^[-*+]\s+.+/ on t
IsUnorderedStart(t) == CharAt(t, 0) \in {"-", "*", "+"} /\ SpaceThenChar(SliceFrom(t, 1))

\* /^\d+\.\s+.+/ on t
IsOrderedStart(t) ==
    LET d == DigitRun(t)
    IN d >= 1 /\ CharAt(t, d) = "." /\ SpaceThenChar(SliceFrom(t, d + 1))

\* /^\d+\.\s/ on t
OrderedMarker(t) ==
    LET d == DigitRun(t)
    IN d >= 1 /\ CharAt(t, d) = "." /\ CharAt(t, d + 1) \in WhiteSpace

\* /^([-*+])\s+(.+)$/ on t: <<content>> or <<>>
UnorderedItem(t) ==
    IF CharAt(t, 0) \in {"-", "*", "+"} THEN SpaceThenText(SliceFrom(t, 1)) ELSE <<>>

\* /^(\d+\.)\s+(.+)$/ on t: <<content>> or <<>>
OrderedItem(t) ==
    LET d == DigitRun(t)
    IN IF d >= 1 /\ CharAt(t, d) = "." THEN SpaceThenText(SliceFrom(t, d + 1)) ELSE <<>>

(***************************************************************************)
(* parseHeader                                                             *)
(***************************************************************************)
\* /^(#{1,6})(\s+(.+))?$/ on line: <<hashes, rest>> with rest = <<match[3]>>, or
\* <<>> when group 2 did not take part; <<>> when the line does not match.
HeaderMatch(line) ==
    LET n == RunLength(line, "#")
        rest == SliceFrom(line, n)
    IN IF n < 1 \/ n > 6 THEN <<>>
       ELSE IF rest = "" THEN <<n, <<>>>>
       ELSE IF SpaceThenText(rest) = <<>> THEN <<>>
       ELSE <<n, SpaceThenText(rest)>>

parseHeader(line) ==
    LET match == HeaderMatch(line)
    IN IF match = <<>> \/ match[2] = <<>>
       THEN [type |-> "paragraph", raw |-> line, children |-> parseInline(line)]
       ELSE [type |-> "header", raw |-> line, text |-> match[2][1], depth |-> match[1],
             children |-> parseInline(match[2][1])]

(***************************************************************************)
(* Line arrays: LineAt(lines, k) is lines[k], SliceLines is lines.slice.    *)
(***************************************************************************)
LineAt(lines, k) == lines[k + 1]

SliceLines(lines, a, b) == IF a >= b THEN <<>> ELSE SubSeq(lines, a + 1, b)

(***************************************************************************)
(* parseList.  The arrays the scan builds are shared and mutated in place   *)
(* (listStack holds references into the token tree), so a scan state keeps  *)
(* them in a heap: lists[l] is the array with reference l, as a sequence of *)
(* item references; items[r] is [tok, sub], the list_item token and the     *)
(* reference of the array assigned to its items field (0: undefined).       *)
(* Reference 1 is the root array "items".                                   *)
(***************************************************************************)
ListInit(startIndex) ==
    [i |-> startIndex, currentIndent |-> 0, listStack |-> <<1>>,
     lists |-> <<(<<>>)>>, items |-> <<>>]

\* An item pattern that takes a marker of either kind.
ListItemMatchEither(line, isOrderedList) ==
    IF OrderedItem(Trim(line)) # <<>> THEN OrderedItem(Trim(line)) ELSE UnorderedItem(Trim(line))

\* listItemMatch: <<content>> or <<>>
ListItemMatch(line, isOrderedList) ==
    IF isOrderedList THEN OrderedItem(Trim(line)) ELSE UnorderedItem(Trim(line))

\* What one iteration of the scan does with lines[ls.i].
ListLineKind(lines, isOrderedList, ls) ==
    LET line == LineAt(lines, ls.i)
        indent == LeadingSpace(line)
    IN IF ListItemMatch(line, isOrderedList) = <<>>
       THEN (IF indent > ls.currentIndent /\ Trim(line) # "" THEN "lazy" ELSE "break")
       ELSE IF indent > ls.currentIndent THEN "open"
       ELSE IF indent < ls.currentIndent THEN "pop"
       ELSE "same"

\* A dedent that closes every open level at once.
PopToRoot(indent, currentIndent, listStack) ==
    [currentIndent |-> indent, listStack |-> <<listStack[1]>>]

RECURSIVE PopLevels(_, _, _)
\* while (indent < currentIndent && listStack.length > 1) { pop; currentIndent -= 2 }
PopLevels(indent, currentIndent, listStack) ==
    IF indent < currentIndent /\ Len(listStack) > 1
    THEN PopLevels(indent, currentIndent - 2, SubSeq(listStack, 1, Len(listStack) - 1))
    ELSE [currentIndent |-> currentIndent, listStack |-> listStack]

\* A continuation line that is read and dropped.
ListLazySkip(lines, ls) == [ls EXCEPT !.i = ls.i + 1]

\* The lazy continuation branch.
ListLazy(lines, ls) ==
    LET line == LineAt(lines, ls.i)
        currentList == ls.lists[ls.listStack[Len(ls.listStack)]]
        r == currentList[Len(currentList)]
        lastItem == ls.items[r].tok
    IN IF Len(currentList) > 0 /\ lastItem.text # ""
       THEN [ls EXCEPT !.i = ls.i + 1,
                       !.items[r].tok.text = lastItem.text \o "\n" \o Trim(line),
                       !.items[r].tok.children =
                           Append(lastItem.children, TextToken(Trim(line)))]
       ELSE [ls EXCEPT !.i = ls.i + 1]

\* The nesting update before the push: open a level, pop levels, or neither.
ListNest(lines, ls) ==
    LET line == LineAt(lines, ls.i)
        indent == LeadingSpace(line)
        parentList == ls.lists[ls.listStack[Len(ls.listStack)]]
        newList == Len(ls.lists) + 1
        popped == PopLevels(indent, ls.currentIndent, ls.listStack)
    IN IF indent > ls.currentIndent
       THEN [ls EXCEPT !.lists = Append(ls.lists, <<>>),
                       !.items = IF Len(parentList) > 0
                                 THEN [ls.items EXCEPT ![parentList[Len(parentList)]].sub = newList]
                                 ELSE ls.items,
                       !.listStack = Append(ls.listStack, newList),
                       !.currentIndent = indent]
       ELSE IF indent < ls.currentIndent
       THEN [ls EXCEPT !.currentIndent = popped.currentIndent, !.listStack = popped.listStack]
       ELSE ls

\* currentList.push({type: "list_item", ...}); i++
ListPush(lines, isOrderedList, ls) ==
    LET line == LineAt(lines, ls.i)
        content == ListItemMatch(line, isOrderedList)[1]
        top == ls.listStack[Len(ls.listStack)]
        r == Len(ls.items) + 1
    IN [ls EXCEPT !.items = Append(ls.items,
                      [tok |-> [type |-> "list_item", raw |-> line, text |-> content,
                                ordered |-> isOrderedList, children |-> parseInline(content)],
                       sub |-> 0]),
                  !.lists[top] = Append(ls.lists[top], r),
                  !.i = ls.i + 1]

\* One iteration of the while loop that does not break.
ListStep(lines, isOrderedList, ls) ==
    IF ListLineKind(lines, isOrderedList, ls) = "lazy"
    THEN ListLazy(lines, ls)
    ELSE ListPush(lines, isOrderedList, ListNest(lines, ls))

ListRunning(lines, isOrderedList, ls) ==
    ls.i < Len(lines) /\ ListLineKind(lines, isOrderedList, ls) # "break"

RECURSIVE ListLoop(_, _, _)
ListLoop(lines, isOrderedList, ls) ==
    IF ListRunning(lines, isOrderedList, ls)
    THEN ListLoop(lines, isOrderedList, ListStep(lines, isOrderedList, ls))
    ELSE ls

RECURSIVE ItemTree(_, _)
\* The token array behind reference l, as the renderer reads it.
ItemTree(ls, l) ==
    [k \in 1..Len(ls.lists[l]) |->
        LET it == ls.items[ls.lists[l][k]]
        IN IF it.sub = 0 THEN it.tok
           ELSE [type |-> it.tok.type, raw |-> it.tok.raw, text |-> it.tok.text,
                 ordered |-> it.tok.ordered, children |-> it.tok.children,
                 items |-> ItemTree(ls, it.sub)]]

\* const isOrderedList = /^\d+\.\s/.test(firstLine)
IsOrderedList(lines, startIndex) == OrderedMarker(Trim(LineAt(lines, startIndex)))

ListResult(lines, startIndex, ls) ==
    [token |-> [type |-> "list", raw |-> Join(SliceLines(lines, startIndex, ls.i), "\n"),
                ordered |-> IsOrderedList(lines, startIndex), items |-> ItemTree(ls, 1)],
     newIndex |-> ls.i - 1]

parseList(lines, startIndex) ==
    ListResult(lines, startIndex,
               ListLoop(lines, IsOrderedList(lines, startIndex), ListInit(startIndex)))

(***************************************************************************)
(* parseCodeBlock, parseBlockquote, tokenize                                *)
(***************************************************************************)
RECURSIVE CodeBlockEnd(_, _)
\* while (i < lines.length && !lines[i].startsWith(fence)) i++
CodeBlockEnd(lines, k) ==
    IF k < Len(lines) /\ ~StartsWith(LineAt(lines, k), Fence, 0)
    THEN CodeBlockEnd(lines, k + 1)
    ELSE k

\* [threw |-> TRUE] for the "Unclosed code block" error.
parseCodeBlock(lines, startIndex) ==
    LET end == CodeBlockEnd(lines, startIndex + 1)
    IN IF end >= Len(lines) THEN [threw |-> TRUE]
       ELSE [threw |-> FALSE,
             token |-> [type |-> "code_block",
                        raw |-> Join(SliceLines(lines, startIndex, end + 1), "\n"),
                        text |-> Join(SliceLines(lines, startIndex + 1, end), "\n"),
                        lang |-> Trim(SliceFrom(LineAt(lines, startIndex), 3))],
             newIndex |-> end]

RECURSIVE BlockquoteEnd(_, _)
BlockquoteEnd(lines, k) ==
    IF k < Len(lines) /\ (StartsWith(LineAt(lines, k), ">", 0) \/ Trim(LineAt(lines, k)) = "")
    THEN BlockquoteEnd(lines, k + 1)
    ELSE k

RECURSIVE BlockquoteContent(_, _, _)
\* content: from every non-blank consumed line, line.slice(1).trim()
BlockquoteContent(lines, k, end) ==
    IF k >= end THEN <<>>
    ELSE (IF Trim(LineAt(lines, k)) # "" THEN <<Trim(SliceFrom(LineAt(lines, k), 1))>> ELSE <<>>)
         \o BlockquoteContent(lines, k + 1, end)

RECURSIVE tokenize(_)
RECURSIVE TokenizeLoop(_, _, _)
RECURSIVE TokenizeAt(_, _)
RECURSIVE parseBlockquote(_, _)

parseBlockquote(lines, startIndex) ==
    LET end == BlockquoteEnd(lines, startIndex)
    IN [token |-> [type |-> "blockquote",
                   raw |-> Join(SliceLines(lines, startIndex, end), "\n"),
                   children |-> tokenize(Join(BlockquoteContent(lines, startIndex, end), "\n"))],
        newIndex |-> end - 1]

\* The paragraph test tried before the others.
LineKindParagraphFirst(line) == IF Trim(line) # "" THEN "paragraph" ELSE "blank"

\* Which test of the loop body the line passes first.
LineKind(line) ==
    IF StartsWith(line, "#", 0) THEN "header"
    ELSE IF StartsWith(line, ">", 0) THEN "blockquote"
    ELSE IF StartsWith(line, Fence, 0) THEN "code"
    ELSE IF IsUnorderedStart(Trim(line)) \/ IsOrderedStart(Trim(line)) THEN "list"
    ELSE IF Trim(line) # "" THEN "paragraph"
    ELSE "blank"

\* One iteration of the for loop at index k, the catch clause included:
\* the tokens it pushes and the value of i when the body ends (the loop then
\* increments it).
TokenizeAt(lines, k) ==
    LET line == LineAt(lines, k)
        kind == LineKind(line)
    IN CASE kind = "header" -> [push |-> <<parseHeader(line)>>, newIndex |-> k]
         [] kind = "blockquote" ->
              LET blockquote == parseBlockquote(lines, k)
              IN [push |-> <<blockquote.token>>, newIndex |-> blockquote.newIndex]
         [] kind = "code" ->
              LET codeBlock == parseCodeBlock(lines, k)
              IN IF codeBlock.threw
                 THEN [push |-> <<[type |-> "paragraph", raw |-> line,
                                   text |-> escapeHtml(line)]>>,
                       newIndex |-> k]
                 ELSE [push |-> <<codeBlock.token>>, newIndex |-> codeBlock.newIndex]
         [] kind = "list" ->
              LET list == parseList(lines, k)
              IN [push |-> <<list.token>>, newIndex |-> list.newIndex]
         [] kind = "paragraph" ->
              [push |-> <<[type |-> "paragraph", raw |-> line, children |-> parseInline(line)]>>,
               newIndex |-> k]
         [] OTHER -> [push |-> <<>>, newIndex |-> k]

TokenizeLoop(lines, k, acc) ==
    IF k < Len(lines)
    THEN LET r == TokenizeAt(lines, k) IN TokenizeLoop(lines, r.newIndex + 1, acc \o r.push)
    ELSE acc

\* const lines = markdown.trim().split("\n")
SplitLines(md) == Split(Trim(md), "\n")

tokenize(md) == TokenizeLoop(SplitLines(md), 0, <<>>)

(***************************************************************************)
(* SyntaxHighlighter                                                       *)
(***************************************************************************)
\* The names the constructor registers.
BuiltinLanguages == {"javascript", "js"}

RECURSIVE StringBody(_, _, _)
\* Whether s[a..b) is a sequence of (?:[^\\]|\\.) units.
StringBody(s, a, b) ==
    IF a >= b THEN a = b
    ELSE IF CharAt(s, a) = "\\"
    THEN a + 1 < b /\ CharAt(s, a + 1) \notin LineTerminators /\ StringBody(s, a + 2, b)
    ELSE StringBody(s, a + 1, b)

\* The end (lastIndex) of the match of /('|"|BT)(?:[^\\]|\\.)*?\1/ that
\* starts at k, or -1: the lazy body stops at the first closing quote.
QuotedEnd(s, k) ==
    LET q == CharAt(s, k)
        es == {e \in (k + 1)..(Len(s) - 1) : CharAt(s, e) = q /\ StringBody(s, k + 1, e)}
    IN IF q \in {"'", "\"", BT} /\ es # {} THEN Min(es) + 1 ELSE -1

RECURSIVE QuotedSpans(_, _)
\* The successive matches regex.exec finds from position k: <<index, lastIndex>>.
QuotedSpans(s, k) ==
    LET starts == {p \in k..(Len(s) - 1) : QuotedEnd(s, p) # -1}
    IN IF starts = {} THEN <<>>
       ELSE <<(<<Min(starts), QuotedEnd(s, Min(starts))>>)>>
            \o QuotedSpans(s, QuotedEnd(s, Min(starts)))

\* isInsideString(text, char): text.indexOf(char) is the first occurrence.
isInsideString(s, char) ==
    LET at == IndexOf(s, char, 0)
        spans == QuotedSpans(s, 0)
    IN \E n \in 1..Len(spans) : spans[n][1] <= at /\ spans[n][2] > at

RECURSIVE EscapeExcept(_, _)
EscapeExcept(s, keepQuote) ==
    IF Len(s) = 0 THEN ""
    ELSE LET c == CharAt(s, 0)
         IN (CASE c = "'" -> IF keepQuote THEN c ELSE "&#039;"
               [] c = "&" -> "&amp;"
               [] c = "<" -> "&lt;"
               [] c = ">" -> "&gt;"
               [] c = "\"" -> "&quot;"
               [] OTHER -> c)
            \o EscapeExcept(SliceFrom(s, 1), keepQuote)

escapeHtmlExceptStrings(s) == EscapeExcept(s, isInsideString(s, "'"))

\* The token names of the rules of the javascript definition, in order.
JavascriptRules ==
    <<"string", "comment", "keyword", "number", "punctuation", "function", "boolean">>

\* A language definition is [name, rules]; a rule is kept by its token name.
JavascriptDefinition == [name |-> "javascript", rules |-> JavascriptRules]

\* this.languages when the constructor returns.
ConstructedLanguages == [n \in BuiltinLanguages |-> JavascriptDefinition]

\* Map.prototype.set
MapSet(map, key, value) ==
    [k \in DOMAIN map \cup {key} |-> IF k = key THEN value ELSE map[k]]

\* registerLanguage(name, definition) on the map langs
registerLanguage(langs, name, definition) == MapSet(langs, name, definition)

\* The loop over the rules of a definition.  With no rule the loop body never
\* runs and the string is returned as it is.  The regular expressions of the
\* rules are not modelled: the result of a loop that runs is kept as the
\* term [rules, source], the rules and the string they are applied to.
ApplyRules(rules, s) == IF rules = <<>> THEN s ELSE [rules |-> rules, source |-> s]

\* A lookup that falls back to a definition with no rules.
LanguageOrPlain(langs, lang) ==
    IF lang \in DOMAIN langs THEN <<langs[lang]>> ELSE <<[name |-> "plain", rules |-> <<>>]>>

\* this.languages.get(lang): <<definition>>, or <<>> for undefined
LanguageOf(langs, lang) == IF lang \in DOMAIN langs THEN <<langs[lang]>> ELSE <<>>

\* highlight(code, lang) of a highlighter whose map is langs.
HighlightWith(langs, code, lang) ==
    LET language == LanguageOf(langs, lang)
    IN IF language = <<>> THEN code
       ELSE ApplyRules(language[1].rules, escapeHtmlExceptStrings(code))

\* highlight as tokensToHtml calls it: Markyfy registers no language, the map
\* is the constructor's.  The documents of the specifications of parse use
\* fence languages that are not registered.
highlight(code, lang) == HighlightWith(ConstructedLanguages, code, lang)

(***************************************************************************)
(* tokensToHtml.  The renderer is modelled as producing pieces, each the    *)
(* string it contributes and where the string comes from: "markup" is text  *)
(* of the template literals, every other source is token data interpolated  *)
(* into them ("text": through escapeHtml; "url", "lang", "code", "slug",    *)
(* "depth": as the case of the switch passes it).  The returned string is   *)
(* the concatenation of the pieces.  The constant style sheets of the       *)
(* code_block and list templates are abridged to their tags.                *)
(***************************************************************************)
Piece(s, src) == <<[s |-> s, src |-> src]>>

Field(token, f, default) == IF f \in DOMAIN token THEN token[f] ELSE default

CodeBlockOpen == "\n            <pre>\n              <code class=\"language-"

CodeBlockClose == "</code>\n            </pre>\n            <style>...</style>\n          "

ListStyle == "\n              <style>...</>\n            "

RECURSIVE JoinPieces(_, _)
\* fragments.join(sep) over piece sequences
JoinPieces(fragments, sep) ==
    IF Len(fragments) = 0 THEN <<>>
    ELSE IF Len(fragments) = 1 THEN fragments[1]
    ELSE fragments[1] \o Piece(sep, "markup") \o JoinPieces(Tail(fragments), sep)

RECURSIVE TokensPieces(_, _)
RECURSIVE TokenPieces(_, _)
RECURSIVE ChildrenPieces(_, _)
RECURSIVE ListItemsPieces(_, _)

\* renderChildren
ChildrenPieces(token, opts) ==
    IF "children" \notin DOMAIN token THEN <<>>
    ELSE LET frag == [k \in 1..Len(token.children) |->
                         TokensPieces(<<token.children[k]>>, opts)]
         IN JoinPieces(frag, "")

\* renderListItems
ListItemsPieces(items, opts) ==
    LET frag == [k \in 1..Len(items) |->
                    Piece("<li>", "markup")
                    \o ChildrenPieces(items[k], opts)
                    \o (IF "items" \in DOMAIN items[k]
                        THEN Piece("\n", "markup") \o ListItemsPieces(items[k].items, opts)
                             \o Piece("\n", "markup")
                        ELSE <<>>)
                    \o Piece("</li>", "markup")]
    IN JoinPieces(frag, "\n")

\* The switch on token.type.
TokenPieces(token, opts) ==
    CASE token.type = "header" ->
           Piece("<h", "markup") \o Piece(CharAt(Digits, token.depth), "depth")
           \o (IF opts.headerIds
               THEN Piece(" id=\"", "markup") \o Piece(slugify(Field(token, "text", "")), "slug")
                    \o Piece("\"", "markup")
               ELSE <<>>)
           \o Piece(">", "markup") \o ChildrenPieces(token, opts)
           \o Piece("</h", "markup") \o Piece(CharAt(Digits, token.depth), "depth")
           \o Piece(">", "markup")
      [] token.type = "code_block" ->
           Piece(CodeBlockOpen, "markup") \o Piece(Field(token, "lang", ""), "lang")
           \o Piece("\">", "markup")
           \o Piece(highlight(Field(token, "text", ""), Field(token, "lang", "")), "code")
           \o Piece(CodeBlockClose, "markup")
      [] token.type = "paragraph" ->
           Piece("<p>", "markup") \o ChildrenPieces(token, opts) \o Piece("</p>", "markup")
      [] token.type = "blockquote" ->
           Piece("<blockquote>", "markup")
           \o TokensPieces(Field(token, "children", <<>>), opts)
           \o Piece("</blockquote>", "markup")
      [] token.type = "list" ->
           LET tag == IF token.ordered THEN "ol" ELSE "ul"
           IN Piece("\n              <" \o tag \o ">\n", "markup")
              \o ListItemsPieces(Field(token, "items", <<>>), opts)
              \o Piece("\n</" \o tag \o ">" \o ListStyle, "markup")
      [] token.type = "bold" ->
           Piece("<strong>", "markup") \o Piece(escapeHtml(Field(token, "text", "")), "text")
           \o Piece("</strong>", "markup")
      [] token.type = "italic" ->
           Piece("<em>", "markup") \o Piece(escapeHtml(Field(token, "text", "")), "text")
           \o Piece("</em>", "markup")
      [] token.type = "code" ->
           Piece("<code>", "markup") \o Piece(escapeHtml(Field(token, "text", "")), "text")
           \o Piece("</code>", "markup")
      [] token.type = "link" ->
           Piece("<a href=\"", "markup")
           \o Piece(IF opts.sanitize THEN sanitizeUrl(Field(token, "url", "")) ELSE token.url, "url")
           \o Piece("\">", "markup") \o Piece(escapeHtml(Field(token, "text", "")), "text")
           \o Piece("</a>", "markup")
      [] OTHER -> Piece(escapeHtml(Field(token, "text", "")), "text")

\* The fragments with nothing between them.
TokensPiecesUnseparated(toks, opts) ==
    JoinPieces([k \in 1..Len(toks) |-> TokenPieces(toks[k], opts)], "")

\* tokens.map(...).join("\n")
TokensPieces(toks, opts) ==
    JoinPieces([k \in 1..Len(toks) |-> TokenPieces(toks[k], opts)], "\n")

RECURSIVE PieceText(_)
PieceText(pieces) == IF Len(pieces) = 0 THEN "" ELSE pieces[1].s \o PieceText(Tail(pieces))

tokensToHtml(toks, opts) == PieceText(TokensPieces(toks, opts))

(***************************************************************************)
(* Input domains.                                                          *)
(***************************************************************************)
RECURSIVE SeqsUpTo(_, _)
\* The sequences over S of length at most n.
SeqsUpTo(S, n) ==
    IF n = 0 THEN {<<>>}
    ELSE LET shorter == SeqsUpTo(S, n - 1)
         IN shorter \cup {Append(q, x) : q \in {r \in shorter : Len(r) = n - 1}, x \in S}

OptionSets == [headerIds : BOOLEAN, sanitize : BOOLEAN]

\* Lines of the documents of Spec: every block kind, inline constructs,
\* characters that need escaping, fences with and without a closing line.
DocLines ==
    {"# Title", "> q", Fence, Fence \o "py", "- a", "",
     "**b** <c> [y](\"u)"}

Documents == {Join(d, "\n") : d \in SeqsUpTo(DocLines, MaxLines) \ {<<>>}}

\* Lines of the documents of SpecBlock: the end-to-end example, a quote, a
\* quote in a quote, a fence, list lines at two indentations and a blank
\* line.
BlockLines ==
    {"# Title", "", "Some **bold** text.", "> q", "> > q", Fence, "- a", "  - b"}

BlockDocuments == {Join(d, "\n") : d \in SeqsUpTo(BlockLines, MaxLines) \ {<<>>}}

\* Pieces of the strings of SpecEscape: the five characters escapeHtml
\* replaces, a letter, and an entity as an earlier escaping leaves it.
EscapePieces == {"&", "<", ">", "\"", "'", "a", "&amp;"}

EscapeTexts == {Concat(e) : e \in SeqsUpTo(EscapePieces, MaxEscapePieces)}

\* Lines of the documents of SpecQuote: quotes with one and three spaces
\* after the marker, a quote in a quote, quoted list lines at two
\* indentations, a blank line and a line that ends a quote.
QuoteLines == {"> q", ">   q", "> > q", "> - a", ">   - b", "", "x"}

QuoteDocuments == {Join(d, "\n") : d \in SeqsUpTo(QuoteLines, MaxLines) \ {<<>>}}

\* Lines of the documents of SpecNested: items of both marker kinds at two
\* indentations and a line that ends a list.
NestedLines == {"- a", "  - b", "1. a", "  1. b", "x"}

NestedDocuments == {Join(d, "\n") : d \in SeqsUpTo(NestedLines, MaxLines) \ {<<>>}}

\* Lines of the documents of SpecSpan: one line of every block kind, a
\* blank line, and an item line with a carriage return inside.
SpanLines == {"# T", "> q", "", Fence, "- a", "  x", "- a\rb"}

SpanDocuments == {Join(d, "\n") : d \in SeqsUpTo(SpanLines, MaxLines) \ {<<>>}}

\* Pieces of the link targets of SpecLink.
UrlPieces == {"javascript", "JavaScript", ":", "alert(1)", "http", "a", " "}

LinkDocuments == {"[x](" \o Concat(u) \o ")" : u \in SeqsUpTo(UrlPieces, MaxUrlPieces)}

\* Pieces of the first line of the documents of SpecHeader; a second line
\* keeps the white space at the end of the first from being trimmed.
HeaderPieces == {"#", "######", " ", "\t", "B c!"}

HeaderDocuments ==
    {Concat(h) \o "\nx" : h \in SeqsUpTo(HeaderPieces, MaxHeaderPieces) \ {<<>>}}

\* Pieces of the code of SpecHighlight: the two quotes, characters escapeHtml
\* replaces, and the backslash of the string pattern.
CodePieces == {"'", "\"", "<&>", "\\"}

Codes == {Concat(c) : c \in SeqsUpTo(CodePieces, MaxCodePieces)}

\* Names highlight is called with and languages are registered under.
LanguageNames == {"javascript", "js", "py"}

\* The definition the callers of SpecHighlight register: one with no rules.
UserDefinitions == {[name |-> "plain", rules |-> <<>>]}

\* Pieces of the lines of SpecInline.
InlinePieces == {"a", "*", "**", "_", "__", BT, "[", "](", ")", "a*b*c"}

InlineTexts == {Concat(q) : q \in SeqsUpTo(InlinePieces, MaxPieces)}

RECURSIVE Spaces(_)
Spaces(n) == IF n = 0 THEN "" ELSE " " \o Spaces(n - 1)

\* Indentations of the lines of SpecList: two-space steps, one odd width and
\* (from 0 to 4) one jump of two steps.
Indents == {0, 1, 2, 4}

\* Lines of the scans of SpecList: an item or plain text at each indentation.
ListLines == {Spaces(n) \o body : n \in Indents, body \in {"- a", "x"}}

ListDocuments ==
    {d \in SeqsUpTo(ListLines, MaxListLines) : d # <<>> /\ LineKind(d[1]) = "list"}

\* Lines of the scans of SpecLazy: items at two indentations, plain text at
\* three, and a blank line.
LazyLines == {"- a", "  - a", "x", "  x", "    x", ""}

LazyDocuments ==
    {d \in SeqsUpTo(LazyLines, MaxListLines) : d # <<>> /\ LineKind(d[1]) = "list"}

\* Lines of the scans of SpecOrdered: items of both marker kinds at two
\* indentations.
OrderedLines == {Spaces(n) \o body : n \in {0, 2}, body \in {"- a", "1. a"}}

OrderedDocuments == SeqsUpTo(OrderedLines, MaxListLines) \ {<<>>}

(***************************************************************************)
(* parse: tokenize line by line, render, and the catch clause.              *)
(***************************************************************************)
NoInline == /\ text = "" /\ i = 0 /\ current = "" /\ itokens = <<>> /\ prev = -1

NoList == /\ llines = <<>> /\ scan = ListInit(0) /\ before = ListInit(0)

NoHighlight ==
    /\ languages = ConstructedLanguages /\ hcode = "" /\ hlang = "" /\ highlighted = ""

NoEscape == subject = "" /\ escapes = <<>>

NoLine == [idx |-> -1, count |-> 0]

\* constructor(options = {}): headerIds and sanitize are on unless given.
DefaultOptions == [headerIds |-> TRUE, sanitize |-> TRUE]

NoParse ==
    /\ markdown = "" /\ options = DefaultOptions /\ fault = "none"
    /\ mdLines = <<>> /\ idx = 0 /\ tokens = <<>> /\ html = ""
    /\ lineBefore = NoLine

\* parse(markdown) is called on a Markyfy whose options are among opts.
ParseInitWith(docs, opts) ==
    /\ markdown \in docs
    /\ options \in opts
    /\ fault = "none"
    /\ pc = "parse"
    /\ mdLines = <<>> /\ idx = 0 /\ tokens = <<>> /\ html = ""
    /\ lineBefore = NoLine
    /\ NoInline /\ NoList /\ NoHighlight /\ NoEscape

ParseInit(docs) == ParseInitWith(docs, OptionSets)

\* tokenize is entered: const mdLines = markdown.trim().split("\n")
TokenizeStart ==
    /\ pc = "parse"
    /\ mdLines' = SplitLines(markdown)
    /\ idx' = 0
    /\ tokens' = <<>>
    /\ lineBefore' = NoLine
    /\ pc' = "tokenize"
    /\ UNCHANGED <<markdown, options, fault, html, inlineVars, listVars, highlightVars, escapeVars>>

\* One iteration of the for loop of tokenize.
TokenizeLine ==
    /\ pc = "tokenize"
    /\ idx < Len(mdLines)
    /\ Len(tokens) < MaxTokens
    /\ LET r == TokenizeAt(mdLines, idx)
       IN /\ tokens' = tokens \o r.push
          /\ idx' = r.newIndex + 1
    /\ lineBefore' = [idx |-> idx, count |-> Len(tokens)]
    /\ UNCHANGED <<markdown, options, fault, pc, mdLines, html, inlineVars, listVars, highlightVars, escapeVars>>

\* tokenize returns; tokensToHtml is entered.
TokenizeReturn ==
    /\ pc = "tokenize"
    /\ idx >= Len(mdLines)
    /\ pc' = "render"
    /\ UNCHANGED <<markdown, options, fault, mdLines, idx, tokens, html, lineBefore,
                   inlineVars, listVars, highlightVars, escapeVars>>

\* return this.tokensToHtml(tokens)
Render ==
    /\ pc = "render"
    /\ html' = tokensToHtml(tokens, options)
    /\ pc' = "done"
    /\ UNCHANGED <<markdown, options, fault, mdLines, idx, tokens, lineBefore,
                   inlineVars, listVars, highlightVars, escapeVars>>

\* An exception escapes tokenize or tokensToHtml.  Nothing in the two throws
\* past the per-line handler on its own; what can is the host (the call
\* stack running out on deep nesting), at any point of either stage.
Throw ==
    /\ pc \in {"tokenize", "render"}
    /\ fault' = pc
    /\ pc' = "catch"
    /\ UNCHANGED <<markdown, options, mdLines, idx, tokens, html, lineBefore,
                   inlineVars, listVars, highlightVars, escapeVars>>

\* A catch clause that returns the input as it came.
RawResult(md) == md

\* What the catch clause of parse returns.
CatchResult(md) == escapeHtml(md)

\* catch (error) { return this.escapeHtml(markdown) }
Catch ==
    /\ pc = "catch"
    /\ html' = CatchResult(markdown)
    /\ pc' = "done"
    /\ UNCHANGED <<markdown, options, fault, mdLines, idx, tokens, lineBefore,
                   inlineVars, listVars, highlightVars, escapeVars>>

Next == TokenizeStart \/ TokenizeLine \/ TokenizeReturn \/ Render \/ Throw \/ Catch

Init == ParseInit(Documents)

Spec == Init /\ [][Next]_vars

InitLink == ParseInit(LinkDocuments)

SpecLink == InitLink /\ [][Next]_vars

InitBlock == ParseInitWith(BlockDocuments, {DefaultOptions})

SpecBlock == InitBlock /\ [][Next]_vars

InitQuote == ParseInitWith(QuoteDocuments, {DefaultOptions})

SpecQuote == InitQuote /\ [][Next]_vars

InitNested == ParseInitWith(NestedDocuments, {DefaultOptions})

SpecNested == InitNested /\ [][Next]_vars

InitSpan == ParseInitWith(SpanDocuments, {DefaultOptions})

SpecSpan == InitSpan /\ [][Next]_vars

InitHeader == ParseInit(HeaderDocuments)

SpecHeader == InitHeader /\ [][Next]_vars

(***************************************************************************)
(* parseInline, one iteration of the while loop per step.                   *)
(***************************************************************************)
InitInline ==
    /\ text \in InlineTexts
    /\ i = 0 /\ current = "" /\ itokens = <<>> /\ prev = -1
    /\ pc = "scan"
    /\ NoParse /\ NoList /\ NoHighlight /\ NoEscape

\* The loop is at position i and its body takes branch b there.
InlineAt(b) == pc = "scan" /\ i < Len(text) /\ InlineBranch(text, i) = b

\* One iteration of the while loop.
InlineIteration ==
    /\ LET st == InlineStep(text, [i |-> i, current |-> current, tokens |-> itokens])
       IN /\ i' = st.i
          /\ current' = st.current
          /\ itokens' = st.tokens
    /\ prev' = i
    /\ UNCHANGED <<text, pc, parseVars, listVars, highlightVars, escapeVars>>

InlineBold ==
    /\ InlineAt("bold")
    /\ InlineIteration

InlineItalic ==
    /\ InlineAt("italic")
    /\ InlineIteration

InlineCode ==
    /\ InlineAt("code")
    /\ InlineIteration

InlineLink ==
    /\ InlineAt("link")
    /\ InlineIteration

InlineChar ==
    /\ InlineAt("char")
    /\ InlineIteration

\* The loop ends: the pending text is flushed and tokens returned.
InlineReturn ==
    /\ pc = "scan"
    /\ i >= Len(text)
    /\ itokens' = Flush([i |-> i, current |-> current, tokens |-> itokens])
    /\ current' = ""
    /\ prev' = -1
    /\ pc' = "idone"
    /\ UNCHANGED <<text, i, parseVars, listVars, highlightVars, escapeVars>>

NextInline ==
    InlineBold \/ InlineItalic \/ InlineCode \/ InlineLink \/ InlineChar \/ InlineReturn

SpecInline == InitInline /\ [][NextInline]_vars

(***************************************************************************)
(* parseList, one iteration of the while loop per step.                     *)
(***************************************************************************)
InitList ==
    /\ llines \in ListDocuments
    /\ scan = ListInit(0)
    /\ before = ListInit(0)
    /\ pc = "list"
    /\ NoParse /\ NoInline /\ NoHighlight /\ NoEscape

\* The loop is at a line it treats as kind.
ListAt(kind) ==
    /\ pc = "list"
    /\ scan.i < Len(llines)
    /\ ListLineKind(llines, IsOrderedList(llines, 0), scan) = kind

\* One iteration of the while loop that does not break.
ListIteration ==
    /\ scan' = ListStep(llines, IsOrderedList(llines, 0), scan)
    /\ before' = scan
    /\ UNCHANGED <<llines, pc, parseVars, inlineVars, highlightVars, escapeVars>>

ListOpen ==
    /\ ListAt("open")
    /\ ListIteration

ListPop ==
    /\ ListAt("pop")
    /\ ListIteration

ListSame ==
    /\ ListAt("same")
    /\ ListIteration

ListContinuation ==
    /\ ListAt("lazy")
    /\ ListIteration

\* break, or the end of the lines: the list token is returned.
ListReturn ==
    /\ pc = "list"
    /\ ~ListRunning(llines, IsOrderedList(llines, 0), scan)
    /\ pc' = "ldone"
    /\ UNCHANGED <<llines, scan, before, parseVars, inlineVars, highlightVars, escapeVars>>

NextList == ListOpen \/ ListPop \/ ListSame \/ ListContinuation \/ ListReturn

SpecList == InitList /\ [][NextList]_vars

InitLazy ==
    /\ llines \in LazyDocuments
    /\ scan = ListInit(0)
    /\ before = ListInit(0)
    /\ pc = "list"
    /\ NoParse /\ NoInline /\ NoHighlight /\ NoEscape

SpecLazy == InitLazy /\ [][NextList]_vars

InitOrdered ==
    /\ llines \in OrderedDocuments
    /\ scan = ListInit(0)
    /\ before = ListInit(0)
    /\ pc = "list"
    /\ NoParse /\ NoInline /\ NoHighlight /\ NoEscape

SpecOrdered == InitOrdered /\ [][NextList]_vars


(***************************************************************************)
(* SyntaxHighlighter: calls of registerLanguage and highlight on one       *)
(* highlighter.                                                            *)
(***************************************************************************)
InitHighlight ==
    /\ languages = ConstructedLanguages
    /\ hcode = "" /\ hlang = "" /\ highlighted = ""
    /\ pc = "idle"
    /\ NoParse /\ NoInline /\ NoList /\ NoEscape

\* registerLanguage(name, definition)
RegisterLanguage ==
    /\ pc = "idle"
    /\ \E name \in LanguageNames, definition \in UserDefinitions :
          languages' = registerLanguage(languages, name, definition)
    /\ UNCHANGED <<pc, hcode, hlang, highlighted, parseVars, inlineVars, listVars, escapeVars>>

\* highlight(code, lang) is called.
HighlightCall ==
    /\ pc = "idle"
    /\ hcode' \in Codes
    /\ hlang' \in LanguageNames
    /\ pc' = "lookup"
    /\ UNCHANGED <<languages, highlighted, parseVars, inlineVars, listVars, escapeVars>>

\* if (!language) return code
HighlightUnregistered ==
    /\ pc = "lookup"
    /\ LanguageOf(languages, hlang) = <<>>
    /\ highlighted' = hcode
    /\ pc' = "returned"
    /\ UNCHANGED <<languages, hcode, hlang, parseVars, inlineVars, listVars, escapeVars>>

\* let highlighted = this.escapeHtmlExceptStrings(code)
HighlightEscape ==
    /\ pc = "lookup"
    /\ LanguageOf(languages, hlang) # <<>>
    /\ highlighted' = escapeHtmlExceptStrings(hcode)
    /\ pc' = "rules"
    /\ UNCHANGED <<languages, hcode, hlang, parseVars, inlineVars, listVars, escapeVars>>

\* for (const rule of language.rules) ...; return highlighted
HighlightRules ==
    /\ pc = "rules"
    /\ highlighted' = ApplyRules(LanguageOf(languages, hlang)[1].rules, highlighted)
    /\ pc' = "returned"
    /\ UNCHANGED <<languages, hcode, hlang, parseVars, inlineVars, listVars, escapeVars>>

\* The caller has the value; the highlighter is ready for the next call.
HighlightReturn ==
    /\ pc = "returned"
    /\ hcode' = "" /\ hlang' = "" /\ highlighted' = ""
    /\ pc' = "idle"
    /\ UNCHANGED <<languages, parseVars, inlineVars, listVars, escapeVars>>

NextHighlight ==
    \/ RegisterLanguage \/ HighlightCall \/ HighlightUnregistered
    \/ HighlightEscape \/ HighlightRules \/ HighlightReturn

SpecHighlight == InitHighlight /\ [][NextHighlight]_vars

(***************************************************************************)
(* escapeHtml applied to a string, then to what it returned.                *)
(***************************************************************************)
InitEscape ==
    /\ subject \in EscapeTexts
    /\ escapes = <<>>
    /\ pc = "escape"
    /\ NoParse /\ NoInline /\ NoList /\ NoHighlight

\* escapeHtml(text)
EscapeOnce ==
    /\ pc = "escape"
    /\ escapes = <<>>
    /\ escapes' = <<escapeHtml(subject)>>
    /\ UNCHANGED <<subject, pc, parseVars, inlineVars, listVars, highlightVars>>

\* escapeHtml of the string the first application returned
EscapeAgain ==
    /\ pc = "escape"
    /\ Len(escapes) = 1
    /\ escapes' = Append(escapes, escapeHtml(escapes[1]))
    /\ pc' = "escaped"
    /\ UNCHANGED <<subject, parseVars, inlineVars, listVars, highlightVars>>

NextEscape == EscapeOnce \/ EscapeAgain

SpecEscape == InitEscape /\ [][NextEscape]_vars

(***************************************************************************)
(* Properties of parse (specification Spec).                               *)
(***************************************************************************)
\* C1: parse always returns: when a step of tokenize or tokensToHtml failed,
\* the whole result is the HTML-escaped input (nothing of what was tokenized
\* or rendered before the failure is in it); otherwise the result is the
\* rendering of the tokens of the input.
ParseReturnsEscapedInputOrHtml ==
    /\ pc = "catch" => fault # "none"
    /\ pc = "done" =>
          html = IF fault # "none"
                 THEN escapeHtml(markdown)
                 ELSE tokensToHtml(tokenize(markdown), options)

\* A failure after tokens were pushed, on an input escaping changes.
FailedAfterTokens ==
    /\ pc = "done"
    /\ fault = "tokenize"
    /\ tokens # <<>>
    /\ html = escapeHtml(markdown)
    /\ html # markdown

\* s.includes(p), p non-empty
Contains(s, p) == IndexOf(s, p, 0) # -1

\* The first line of the document opens a fence that no later line closes.
UnclosedFenceFirst ==
    /\ Len(mdLines) > 0
    /\ StartsWith(mdLines[1], Fence, 0)
    /\ parseCodeBlock(mdLines, 0).threw

\* C2: when the line that opens a fence has no closing fence line after it,
\* the line is rendered as a paragraph whose content is the HTML-escaped line
\* (here for a fence on the first line of the document), and the lines after
\* it are tokenized and rendered as the lines of the document they are.
UnclosedFenceLineIsEscapedParagraph ==
    (pc = "done" /\ fault = "none" /\ UnclosedFenceFirst) =>
        /\ tokens = <<tokens[1]>> \o TokenizeLoop(mdLines, 1, <<>>)
        /\ tokens[1].type = "paragraph"
        /\ StartsWith(html, "<p>" \o escapeHtml(mdLines[1]) \o "</p>", 0)

\* The second half of C2 alone: the failure of the fence does not abort the
\* document.
UnclosedFenceRestTokenized ==
    (pc = "done" /\ fault = "none" /\ UnclosedFenceFirst) =>
        /\ tokens = <<tokens[1]>> \o TokenizeLoop(mdLines, 1, <<>>)
        /\ tokens[1] = [type |-> "paragraph", raw |-> mdLines[1],
                        text |-> escapeHtml(mdLines[1])]

\* An unclosed fence followed by a line that is rendered: the paragraph of
\* the fence line is empty.
UnclosedFenceRenderedEmpty ==
    /\ pc = "done" /\ fault = "none"
    /\ UnclosedFenceFirst
    /\ Len(tokens) > 1
    /\ StartsWith(html, "<p></p>\n", 0)

\* The five entities escapeHtml produces.
Entities == {"&amp;", "&lt;", "&gt;", "&quot;", "&#039;"}

RECURSIVE IsEscapedFrom(_, _)
\* From position k on, s holds none of < > " ' and no & but the one that
\* starts an entity.
IsEscapedFrom(s, k) ==
    IF k >= Len(s) THEN TRUE
    ELSE IF CharAt(s, k) \in {"<", ">", "\"", "'"} THEN FALSE
    ELSE IF CharAt(s, k) = "&"
    THEN \E e \in Entities : StartsWith(s, e, k) /\ IsEscapedFrom(s, k + Len(e))
    ELSE IsEscapedFrom(s, k + 1)

\* The pieces of the rendering of the tokens.
RenderedPieces == TokensPieces(tokens, options)

\* C3: in the rendered output every string taken from the input holds the
\* characters & < > " ' in escaped form only; what is not escaped is the
\* markup of the templates and the code of a fence whose language is not
\* registered (the languages of all fences of the documents checked).
InputTextIsEscaped ==
    (pc = "done" /\ fault = "none") =>
        LET pieces == RenderedPieces
        IN /\ html = PieceText(pieces)
           /\ \A k \in 1..Len(pieces) :
                 pieces[k].src \notin {"markup", "code"} => IsEscapedFrom(pieces[k].s, 0)

\* C3 holds of the pieces that go through escapeHtml or are built from
\* characters that need no escaping: all but the target of a link and the
\* language of a fence.
EscapedButUrlAndLang ==
    (pc = "done" /\ fault = "none") =>
        LET pieces == RenderedPieces
        IN \A k \in 1..Len(pieces) :
               pieces[k].src \in {"text", "slug", "depth"} => IsEscapedFrom(pieces[k].s, 0)

\* A link target holding a double quote reaches the href attribute as it is.
RawQuoteInHref ==
    /\ pc = "done" /\ fault = "none"
    /\ Contains(markdown, "[y](\"u)")
    /\ Contains(html, "<a href=\"\"u\">y</a>")

(***************************************************************************)
(* Properties of links (specification SpecLink: documents [x](u)).         *)
(***************************************************************************)
\* The document was rendered and its first inline token is a link.
LinkRendered ==
    /\ pc = "done" /\ fault = "none"
    /\ Len(tokens) > 0 /\ tokens[1].type = "paragraph"
    /\ Len(tokens[1].children) > 0 /\ tokens[1].children[1].type = "link"

\* C4: the href of a rendered link is empty when sanitize is on and the
\* target parses as a javascript: URL; it is the target of the link token,
\* unchanged, when sanitize is off, when the target has another protocol,
\* and when the target does not parse as a URL.
HrefIsTargetUnlessSanitizedJavascript ==
    LinkRendered =>
        LET url == tokens[1].children[1].url
            href == IF options.sanitize /\ UrlProtocol(url) = "javascript:" THEN "" ELSE url
        IN /\ StartsWith(html, "<p><a href=\"" \o href \o "\">x</a>", 0)
           /\ (url = "javascript:alert(1" /\ options.sanitize)
                 => StartsWith(html, "<p><a href=\"\">x</a>", 0)
           /\ (url \in {"javascript:alert(1", "http:a", "a:", "javascript", " a"}
                 /\ ~options.sanitize)
                 => StartsWith(html, "<p><a href=\"" \o url \o "\">x</a>", 0)
           /\ (url \in {"http:a", "a:", "javascript", " a", ":javascript"}
                 /\ options.sanitize)
                 => StartsWith(html, "<p><a href=\"" \o url \o "\">x</a>", 0)

\* The link of [x](javascript:alert(1)) rendered with sanitize on.
JavascriptHrefBlanked ==
    /\ LinkRendered
    /\ options.sanitize
    /\ markdown = "[x](javascript:alert(1))"
    /\ tokens[1].children[1].url = "javascript:alert(1"
    /\ StartsWith(html, "<p><a href=\"\">x</a>", 0)

(***************************************************************************)
(* Properties of parseInline (specification SpecInline).  In a state reached *)
(* by an iteration of the loop, prev is the position the iteration was at.   *)
(***************************************************************************)
\* A two-character bold marker stands at position k of s and does not occur
\* again after it.
UnclosedBoldAt(s, k) ==
    \E marker \in {"**", "__"} : StartsWith(s, marker, k) /\ IndexOf(s, marker, k + 2) = -1

\* C5: at a position where ** or __ stands with no later occurrence of the
\* same marker, the iteration produces no token: it moves the first marker
\* character to the pending plain text and goes on at the next position.
UnclosedBoldFallsToText ==
    (prev # -1 /\ UnclosedBoldAt(text, prev)) =>
        /\ i = prev + 1
        /\ current # ""
        /\ CharAt(current, Len(current) - 1) = CharAt(text, prev)

\* What the iteration does at an unclosed ** or __: the italic branch takes
\* the two marker characters as an italic token with empty text.
UnclosedBoldIsEmptyItalic ==
    (prev # -1 /\ UnclosedBoldAt(text, prev)) =>
        /\ i = prev + 2
        /\ current = ""
        /\ itokens # <<>>
        /\ itokens[Len(itokens)] =
              [type |-> "italic", raw |-> Slice(text, prev, prev + 2), text |-> ""]

\* The scan of **a after its first iteration.
UnclosedBoldTaken ==
    /\ text = "**a"
    /\ prev = 0 /\ i = 2
    /\ itokens = <<[type |-> "italic", raw |-> "**", text |-> ""]>>

\* C6: at a position where ** or __ stands and the same marker occurs again
\* later in the line, the iteration emits a bold token, not an italic one: its
\* text is the substring between the opening marker and the first later
\* occurrence of the marker, single * and _ inside it included as they are,
\* and the scan goes on after the closing marker.  **a*b*c** is one bold
\* token with text a*b*c.
BoldBeforeItalic ==
    /\ \A marker \in {"**", "__"} :
          (/\ prev # -1
           /\ StartsWith(text, marker, prev)
           /\ IndexOf(text, marker, prev + 2) # -1) =>
              LET end == IndexOf(text, marker, prev + 2)
              IN /\ itokens # <<>>
                 /\ itokens[Len(itokens)] =
                       [type |-> "bold", raw |-> Slice(text, prev, end + 2),
                        text |-> Slice(text, prev + 2, end)]
                 /\ i = end + 2
                 /\ current = ""
    /\ (pc = "idone" /\ text = "**a*b*c**") =>
          itokens = <<[type |-> "bold", raw |-> "**a*b*c**", text |-> "a*b*c"]>>

\* The scan of **a*b*c** after its first iteration.
BoldWithSingleStarsInside ==
    /\ text = "**a*b*c**"
    /\ prev = 0 /\ i = 9
    /\ itokens = <<[type |-> "bold", raw |-> "**a*b*c**", text |-> "a*b*c"]>>

\* The positions of s that hold a character an inline construct starts with.
MarkerPositions(s) == {k \in 0..(Len(s) - 1) : CharAt(s, k) \in {"*", "_", BT, "["}}

\* s has no marker character, or one only, with no matching close after it.
AtMostOneOpening(s) ==
    /\ Cardinality(MarkerPositions(s)) <= 1
    /\ \A k \in MarkerPositions(s) :
          CharAt(s, k) = "[" =>
              \A t \in k..(Len(s) - 1) :
                  ~(CharAt(s, t) = "]" /\ CharAt(s, t + 1) = "("
                    /\ IndexOf(s, ")", t + 2) # -1)

\* No branch of the loop body but the last matches at any position of s.
NothingRecognizable(s) == \A k \in 0..(Len(s) - 1) : InlineBranch(s, k) = "char"

\* C7: a non-empty line in which no inline construct is recognized at any
\* position yields exactly one token, of kind text, whose text and raw are
\* the whole line; the lines with no marker character and the lines whose
\* only marker is one opening *, _, backquote or [ with no matching close are
\* such lines.
WholeLineIsOneTextToken ==
    (pc = "idone" /\ text # "") =>
        /\ NothingRecognizable(text) => itokens = <<TextToken(text)>>
        /\ AtMostOneOpening(text) => NothingRecognizable(text)

\* The scan of *a, a line whose only marker is an opening * never closed.
UnclosedStarIsText ==
    /\ pc = "idone"
    /\ text = "*a"
    /\ itokens = <<[type |-> "text", raw |-> "*a", text |-> "*a"]>>

(***************************************************************************)
(* Properties of headers (specification SpecHeader: the first line of the   *)
(* document is built from runs of #, white space and text).                 *)
(***************************************************************************)
\* The parts of a line that starts with #: the number of leading #, what
\* follows them, the white space that follows them, and the text after it.
HashCount(line) == RunLength(line, "#")

AfterHashes(line) == SliceFrom(line, HashCount(line))

HeaderText(line) == SliceFrom(AfterHashes(line), LeadingSpace(AfterHashes(line)))

\* 1 to 6 #, white space, then text.
WellFormedHeader(line) ==
    /\ HashCount(line) \in 1..6
    /\ LeadingSpace(AfterHashes(line)) >= 1
    /\ HeaderText(line) # ""
    /\ NoLineTerminator(HeaderText(line))

\* The first line of the document was tokenized and rendered.
FirstLineRendered == pc = "done" /\ fault = "none" /\ Len(mdLines) > 0 /\ Len(tokens) > 0

HashesWithoutText(line) ==
    /\ HashCount(line) >= 1
    /\ HashCount(line) >= 7 \/ IsBlank(AfterHashes(line))

\* C9: a line of 7 or more #, or of # with nothing or only white space
\* after them, gives no header token: it gives a paragraph token whose
\* children are the inline tokens of the whole line, rendered as <p>.
HashesWithoutTextIsParagraph ==
    (FirstLineRendered /\ HashesWithoutText(mdLines[1])) =>
        /\ tokens[1] = [type |-> "paragraph", raw |-> mdLines[1],
                        children |-> parseInline(mdLines[1])]
        /\ StartsWith(html, "<p>", 0)

\* C9 holds of the runs of 7 or more # and of the runs followed by at most
\* one white space character.
LongOrBareHashesIsParagraph ==
    (/\ FirstLineRendered
     /\ HashesWithoutText(mdLines[1])
     /\ HashCount(mdLines[1]) >= 7 \/ Len(AfterHashes(mdLines[1])) <= 1) =>
        /\ tokens[1] = [type |-> "paragraph", raw |-> mdLines[1],
                        children |-> parseInline(mdLines[1])]
        /\ StartsWith(html, "<p>", 0)

\* 1 to 6 # followed by two or more white space characters and nothing
\* else is a header whose text is the last of them.
BlankTailIsHeader ==
    (/\ FirstLineRendered
     /\ HashCount(mdLines[1]) \in 1..6
     /\ IsBlank(AfterHashes(mdLines[1]))
     /\ Len(AfterHashes(mdLines[1])) >= 2) =>
        /\ tokens[1].type = "header"
        /\ tokens[1].depth = HashCount(mdLines[1])
        /\ tokens[1].text = SliceFrom(mdLines[1], Len(mdLines[1]) - 1)

\* The line of one # and two spaces rendered as a header.
HashAndSpacesRenderedAsHeader ==
    /\ FirstLineRendered
    /\ options.headerIds
    /\ mdLines[1] = "#  "
    /\ tokens[1].type = "header" /\ tokens[1].text = " "
    /\ StartsWith(html, "<h1 id=\"-\"> </h1>", 0)

(***************************************************************************)
(* Properties of parseList (specification SpecList).  In a state reached by  *)
(* an iteration of the loop, before is the scan state the iteration started *)
(* from and scan the one it left; the line it read is llines[before.i].     *)
(***************************************************************************)
RECURSIVE RegularFrom(_, _, _, _)
\* The item lines among lines[k..upto] are indented by a multiple of two
\* spaces, each at most two spaces deeper than the item line before it
\* (level is the indentation of that line).
RegularFrom(lines, k, level, upto) ==
    IF k > upto THEN TRUE
    ELSE LET line == LineAt(lines, k)
             indent == LeadingSpace(line)
         IN IF ListItemMatch(line, IsOrderedList(lines, 0)) = <<>>
            THEN RegularFrom(lines, k + 1, level, upto)
            ELSE /\ indent % 2 = 0
                 /\ indent <= level + 2
                 /\ RegularFrom(lines, k + 1, indent, upto)

\* Regular two-space indentation up to line upto: the first item is not
\* indented.
Regular(lines, upto) == RegularFrom(lines, 0, -2, upto)

\* The last iteration read an item line, under regular indentation so far.
RegularItemRead ==
    /\ scan.i = before.i + 1
    /\ ListItemMatch(LineAt(llines, before.i), IsOrderedList(llines, 0)) # <<>>
    /\ Regular(llines, before.i)

\* C10: under regular two-space indentation, an item line two spaces deeper
\* than the current level opens a nested list, assigned to the items field of
\* the item pushed just before it, with the new item as its first element;
\* an item line two spaces less deep than the current level closes exactly
\* one level, and the new item is pushed into the list of the item that owned
\* the closed level, right after that item.
NestingFollowsIndentation ==
    RegularItemRead =>
        LET indent == LeadingSpace(LineAt(llines, before.i))
            item == Len(scan.items)
            depth == Len(before.listStack)
            top == before.listStack[depth]
        IN /\ Len(scan.items) = Len(before.items) + 1
           /\ indent = before.currentIndent + 2 =>
                 LET newList == Len(before.lists) + 1
                     preceding == Len(before.items)
                 IN /\ preceding >= 1
                    /\ before.items[preceding].tok.raw = LineAt(llines, before.i - 1)
                         \/ ListItemMatch(LineAt(llines, before.i - 1),
                                          IsOrderedList(llines, 0)) = <<>>
                    /\ scan.listStack = Append(before.listStack, newList)
                    /\ scan.items[preceding].sub = newList
                    /\ scan.lists[newList] = <<item>>
                    /\ scan.currentIndent = indent
           /\ indent = before.currentIndent - 2 =>
                 LET parent == before.listStack[depth - 1]
                     owner == before.lists[parent][Len(before.lists[parent])]
                 IN /\ depth >= 2
                    /\ scan.listStack = SubSeq(before.listStack, 1, depth - 1)
                    /\ before.items[owner].sub = top
                    /\ scan.lists[parent] = Append(before.lists[parent], item)
                    /\ scan.lists[top] = before.lists[top]
                    /\ scan.currentIndent = indent

\* Three levels were open and the fourth line, two spaces less deep than the
\* third, closed one: its item follows the owner of the closed level.
OneLevelClosed ==
    /\ llines = <<"- a", "  - a", "    - a", "  - a">>
    /\ scan.i = 4 /\ before.i = 3
    /\ Len(before.listStack) = 3 /\ Len(scan.listStack) = 2
    /\ scan.items[1].sub = scan.listStack[2]
    /\ scan.lists[scan.listStack[2]] = <<2, 4>>
    /\ scan.items[2].sub = before.listStack[3]
    /\ scan.lists[before.listStack[3]] = <<3>>

(***************************************************************************)
(* Properties of the highlighter (specification SpecHighlight).            *)
(***************************************************************************)
\* C11: after any sequence of registerLanguage and highlight calls, the two
\* names the constructor registers are still registered, and highlight with a
\* lang that is not registered returns code itself: nothing escaped, nothing
\* wrapped.
UnregisteredLanguageReturnsCode ==
    /\ BuiltinLanguages \subseteq DOMAIN languages
    /\ (pc = "returned" /\ hlang \notin DOMAIN languages) => highlighted = hcode

\* After js was registered again, a call with py, still not registered, on
\* code that escaping would change.
UnregisteredAfterRegistering ==
    /\ pc = "returned"
    /\ languages["js"].name = "plain"
    /\ hlang = "py" /\ "py" \notin DOMAIN languages
    /\ hcode = "<&>'"
    /\ highlighted = "<&>'"

(***************************************************************************)
(* C12: the string parse returns is the fragments of the top-level tokens,  *)
(* in order, joined by exactly one newline; a paragraph's fragment is its   *)
(* children's fragments concatenated with nothing between them; an          *)
(* iteration on a blank line pushes no token; and with the default options  *)
(* "# Title", a blank line, "Some **bold** text." gives the header and the  *)
(* paragraph fragments joined by one newline.                               *)
(***************************************************************************)
Fragment(token) == tokensToHtml(<<token>>, options)

Fragments(toks) == [k \in 1..Len(toks) |-> Fragment(toks[k])]

ExampleDocument == "# Title\n\nSome **bold** text."

ExampleHtml == "<h1 id=\"title\">Title</h1>\n<p>Some <strong>bold</strong> text.</p>"

OutputIsFragmentsJoinedByNewline ==
    /\ (pc = "done" /\ fault = "none") =>
          /\ html = Join(Fragments(tokens), "\n")
          /\ \A k \in 1..Len(tokens) :
                (tokens[k].type = "paragraph" /\ "children" \in DOMAIN tokens[k]) =>
                   Fragment(tokens[k])
                      = "<p>" \o Join(Fragments(tokens[k].children), "") \o "</p>"
          /\ markdown = ExampleDocument => html = ExampleHtml
    /\ (lineBefore.idx >= 0 /\ Trim(LineAt(mdLines, lineBefore.idx)) = "") =>
          Len(tokens) = lineBefore.count

ExampleRendered ==
    /\ pc = "done" /\ fault = "none"
    /\ markdown = ExampleDocument
    /\ options = DefaultOptions
    /\ Len(tokens) = 2
    /\ html = ExampleHtml

(***************************************************************************)
(* C13: escapeHtml is not idempotent.  For every string with at least one   *)
(* of & < > " ' the second application returns something else than the     *)
(* first, every ampersand of the first result having become &amp; (four     *)
(* characters more each); the two results are equal exactly when the string *)
(* has none of the five characters.                                         *)
(***************************************************************************)
EscapedCharacters == {"&", "<", ">", "\"", "'"}

HasEscapedCharacter(s) == \E k \in 0..(Len(s) - 1) : CharAt(s, k) \in EscapedCharacters

Ampersands(s) == Cardinality({k \in 0..(Len(s) - 1) : CharAt(s, k) = "&"})

EscapeTwiceDiffers ==
    pc = "escaped" =>
       /\ (escapes[2] # escapes[1]) <=> HasEscapedCharacter(subject)
       /\ ~HasEscapedCharacter(subject) => escapes[1] = subject
       /\ Len(escapes[2]) = Len(escapes[1]) + 4 * Ampersands(escapes[1])
       /\ HasEscapedCharacter(subject) => Contains(escapes[2], "&amp;")

QuoteEscapedTwice ==
    /\ pc = "escaped"
    /\ subject = "'"
    /\ escapes = <<"&#039;", "&amp;#039;">>

(***************************************************************************)
(* C14: what an iteration of the tokenize loop pushes for its line is       *)
(* decided by the first test the line passes, in the order: starts with #   *)
(* (what parseHeader returns), starts with > (a blockquote), starts with    *)
(* three backquotes (a code block, or the paragraph of the catch clause     *)
(* when the fence is not closed), the trimmed line starts as a list item    *)
(* (a list), the trimmed line is not empty (a paragraph of its inline       *)
(* tokens); a blank line pushes nothing.                                    *)
(***************************************************************************)
LineEntered == LineAt(mdLines, lineBefore.idx)

Pushed == SubSeq(tokens, lineBefore.count + 1, Len(tokens))

IsMarkerLine(line) == IsUnorderedStart(Trim(line)) \/ IsOrderedStart(Trim(line))

FirstMatchingTestDecides ==
    lineBefore.idx >= 0 =>
       LET line == LineEntered
           pushed == Pushed
       IN IF Len(line) > 0 /\ CharAt(line, 0) = "#"
          THEN pushed = <<parseHeader(line)>>
          ELSE IF Len(line) > 0 /\ CharAt(line, 0) = ">"
          THEN Len(pushed) = 1 /\ pushed[1].type = "blockquote"
          ELSE IF Len(line) >= 3 /\ Slice(line, 0, 3) = Fence
          THEN /\ Len(pushed) = 1
               /\ \/ pushed[1].type = "code_block"
                  \/ pushed[1] = [type |-> "paragraph", raw |-> line,
                                   text |-> escapeHtml(line)]
          ELSE IF IsMarkerLine(line)
          THEN Len(pushed) = 1 /\ pushed[1].type = "list"
          ELSE IF Trim(line) # ""
          THEN pushed = <<[type |-> "paragraph", raw |-> line,
                           children |-> parseInline(line)]>>
          ELSE pushed = <<>>

IndentedMarkerLineIsList ==
    /\ pc = "tokenize"
    /\ lineBefore.idx = 1
    /\ mdLines[1] = "Some **bold** text."
    /\ LineEntered = "  - b"
    /\ Len(tokens) = 2
    /\ tokens[1].type = "paragraph"
    /\ tokens[2].type = "list"

(***************************************************************************)
(* C15: parseBlockquote consumes the longest run of lines that start with   *)
(* > or are blank; from each non-blank line of the run it strips exactly    *)
(* the > and one space after it, keeping any further white space; blank     *)
(* lines are dropped; the children are tokenize of the stripped lines       *)
(* joined by newlines, so that "> > q" gives a blockquote in a blockquote.  *)
(***************************************************************************)
InQuoteRun(line) == (Len(line) > 0 /\ CharAt(line, 0) = ">") \/ Trim(line) = ""

\* The iteration entered at a line starting with > took the longest run.
QuoteRunIsMaximal ==
    /\ \A k \in lineBefore.idx..(idx - 1) : InQuoteRun(LineAt(mdLines, k))
    /\ idx < Len(mdLines) => ~InQuoteRun(LineAt(mdLines, idx))

\* The line without its > and without one space after it.
StripMarkerAndOneSpace(line) ==
    IF Len(line) > 1 /\ CharAt(line, 1) = " " THEN SliceFrom(line, 2) ELSE SliceFrom(line, 1)

\* The line as content.push(lines[i].slice(1).trim()) keeps it.
StripMarkerAndTrim(line) == Trim(SliceFrom(line, 1))

QuoteRunLines ==
    SelectSeq(SliceLines(mdLines, lineBefore.idx, idx), LAMBDA l : Trim(l) # "")

QuoteEntered ==
    /\ lineBefore.idx >= 0
    /\ Len(LineEntered) > 0 /\ CharAt(LineEntered, 0) = ">"

BlockquoteStripsMarkerAndOneSpace ==
    QuoteEntered =>
       LET run == QuoteRunLines
           token == tokens[Len(tokens)]
       IN /\ QuoteRunIsMaximal
          /\ token.type = "blockquote"
          /\ token.children
                = tokenize(Join([k \in 1..Len(run) |-> StripMarkerAndOneSpace(run[k])], "\n"))

\* What holds of the code: the run, the dropped blank lines and the
\* recursion are as stated, and every content line is trimmed on both
\* sides; a quote in a quote is a blockquote child of a blockquote.
BlockquoteStripsMarkerAndTrims ==
    QuoteEntered =>
       LET run == QuoteRunLines
           token == tokens[Len(tokens)]
       IN /\ QuoteRunIsMaximal
          /\ token.type = "blockquote"
          /\ token.children
                = tokenize(Join([k \in 1..Len(run) |-> StripMarkerAndTrim(run[k])], "\n"))
          /\ \A k \in 1..Len(run) :
                (Len(run[k]) > 2 /\ Slice(run[k], 0, 3) = "> >") =>
                   \E c \in 1..Len(token.children) : token.children[c].type = "blockquote"

IndentedQuoteLineTrimmed ==
    /\ pc = "done" /\ fault = "none"
    /\ markdown = "> q\n>   q"
    /\ Len(tokens) = 1
    /\ tokens[1].type = "blockquote"
    /\ Len(tokens[1].children) = 2
    /\ tokens[1].children[2].raw = "q"
    /\ html = "<blockquote><p>q</p>\n<p>q</p></blockquote>"

(***************************************************************************)
(* C16: the marker of the first line fixes whether the list is ordered.     *)
(* Every list_item of the scan, and every list_item of the returned token's *)
(* tree at every depth, has ordered equal to the list's and comes from a    *)
(* line with a marker of the list's kind; a line with a marker of the       *)
(* other kind is never added as an item: it is a lazy continuation when it  *)
(* is indented deeper than currentIndent, and ends the scan otherwise.      *)
(***************************************************************************)
HasOrderedMarker(line) == IsDigit(CharAt(Trim(line), 0))

HasUnorderedMarker(line) == CharAt(Trim(line), 0) \in {"-", "*", "+"}

FirstLineOrdered == HasOrderedMarker(llines[1])

IsOtherKind(line) ==
    IF FirstLineOrdered THEN HasUnorderedMarker(line) ELSE HasOrderedMarker(line)

RECURSIVE TreeOrderedAs(_, _)
TreeOrderedAs(items, ordered) ==
    \A k \in 1..Len(items) :
       /\ items[k].type = "list_item"
       /\ items[k].ordered = ordered
       /\ "items" \in DOMAIN items[k] => TreeOrderedAs(items[k].items, ordered)

\* The last iteration of the scan read the line at before.i.
LineScanned == scan.i = before.i + 1

OrderednessFixedByFirstLine ==
    /\ \A r \in 1..Len(scan.items) :
          /\ scan.items[r].tok.ordered = FirstLineOrdered
          /\ HasOrderedMarker(scan.items[r].tok.raw) = FirstLineOrdered
    /\ (LineScanned /\ IsOtherKind(LineAt(llines, before.i))) =>
          /\ Len(scan.items) = Len(before.items)
          /\ scan.lists = before.lists
          /\ LeadingSpace(LineAt(llines, before.i)) > before.currentIndent
    /\ pc = "ldone" =>
          LET token == ListResult(llines, 0, scan).token
          IN /\ token.ordered = FirstLineOrdered
             /\ TreeOrderedAs(token.items, token.ordered)
             /\ (scan.i < Len(llines) /\ IsOtherKind(LineAt(llines, scan.i))) =>
                   LeadingSpace(LineAt(llines, scan.i)) <= scan.currentIndent

OtherMarkerEndsOrderedList ==
    /\ pc = "ldone"
    /\ llines = <<"1. a", "  1. a", "- a", "1. a">>
    /\ scan.i = 2
    /\ Len(scan.items) = 2
    /\ ListResult(llines, 0, scan).token.ordered
    /\ ListResult(llines, 0, scan).token.items[1].items[1].ordered

(***************************************************************************)
(* C17: in a list scan a non-blank line that is no item of the list's kind  *)
(* and is indented deeper than currentIndent is a lazy continuation: its    *)
(* trimmed content is appended after a newline to the text of the item      *)
(* created last, one text token is appended to that item's children, and    *)
(* listStack, currentIndent and every array stay as they were.  Any other   *)
(* line that is no item (blank, or not indented deeper) ends the scan and   *)
(* is not consumed.                                                         *)
(***************************************************************************)
NotAnItem(line) == ListItemMatch(line, FirstLineOrdered) = <<>>

IndentedDeeper(line, ls) == Trim(line) # "" /\ LeadingSpace(line) > ls.currentIndent

LazyContinuationAppendsToLastItem ==
    /\ (LineScanned /\ NotAnItem(LineAt(llines, before.i))) =>
          LET line == LineAt(llines, before.i)
              r == Len(before.items)
          IN /\ IndentedDeeper(line, before)
             /\ r >= 1
             /\ Len(scan.items) = r
             /\ scan.items[r].tok.text = before.items[r].tok.text \o "\n" \o Trim(line)
             /\ scan.items[r].tok.children
                   = Append(before.items[r].tok.children,
                            [type |-> "text", raw |-> Trim(line), text |-> Trim(line)])
             /\ scan.items[r].sub = before.items[r].sub
             /\ \A q \in 1..(r - 1) : scan.items[q] = before.items[q]
             /\ scan.listStack = before.listStack
             /\ scan.currentIndent = before.currentIndent
             /\ scan.lists = before.lists
    /\ (pc = "ldone" /\ scan.i < Len(llines)) =>
          /\ NotAnItem(LineAt(llines, scan.i))
          /\ ~IndentedDeeper(LineAt(llines, scan.i), scan)
          /\ ListResult(llines, 0, scan).newIndex = scan.i - 1
          /\ ListResult(llines, 0, scan).token.raw = Join(SubSeq(llines, 1, scan.i), "\n")

LazyLineAfterNestedItem ==
    /\ pc = "ldone"
    /\ llines = <<"- a", "  - a", "    x", "x">>
    /\ scan.i = 3
    /\ scan.items[2].tok.text = "a\nx"
    /\ Len(scan.items[2].tok.children) = 2
    /\ scan.items[1].tok.text = "a"

(***************************************************************************)
(* C18: a list token renders as <ul> or <ol> according to its ordered flag, *)
(* and the items of every list_item that has nested items render as a list  *)
(* block of their own (a list element around the nested <li> elements)      *)
(* inside that item's <li>, at every depth: the fragment of a list has one   *)
(* opening and one closing list tag for the token and for every item with   *)
(* nested items.                                                            *)
(***************************************************************************)
RECURSIVE CountOf(_, _)
\* How many times p occurs in s.
CountOf(s, p) ==
    LET k == IndexOf(s, p, 0)
    IN IF k = -1 THEN 0 ELSE 1 + CountOf(SliceFrom(s, k + Len(p)), p)

RECURSIVE SumTo(_, _)
SumTo(f, n) == IF n = 0 THEN 0 ELSE f[n] + SumTo(f, n - 1)

RECURSIVE ItemsWithNestedItems(_)
ItemsWithNestedItems(items) ==
    SumTo([k \in 1..Len(items) |->
              IF "items" \in DOMAIN items[k]
              THEN 1 + ItemsWithNestedItems(items[k].items) ELSE 0], Len(items))

RECURSIVE ItemsInTree(_)
ItemsInTree(items) ==
    SumTo([k \in 1..Len(items) |->
              IF "items" \in DOMAIN items[k]
              THEN 1 + ItemsInTree(items[k].items) ELSE 1], Len(items))

ListTag(token) == IF token.ordered THEN "ol" ELSE "ul"

Returned == pc = "done" /\ fault = "none"

NestedItemsRenderAsListBlock ==
    Returned =>
       \A k \in 1..Len(tokens) :
          tokens[k].type = "list" =>
             LET f == Fragment(tokens[k])
                 tag == ListTag(tokens[k])
             IN /\ CountOf(f, "<" \o tag \o ">") = 1 + ItemsWithNestedItems(tokens[k].items)
                /\ CountOf(f, "</" \o tag \o ">") = 1 + ItemsWithNestedItems(tokens[k].items)

\* What holds of the code: one list element of the token's kind around all
\* the items, and the nested items as bare <li> elements, between two
\* newlines, inside the <li> of their item.
NestedItemsRenderBare ==
    Returned =>
       \A k \in 1..Len(tokens) :
          tokens[k].type = "list" =>
             LET f == Fragment(tokens[k])
                 tag == ListTag(tokens[k])
                 other == IF tokens[k].ordered THEN "ul" ELSE "ol"
             IN /\ CountOf(f, "<" \o tag \o ">") = 1
                /\ CountOf(f, "</" \o tag \o ">") = 1
                /\ CountOf(f, "<" \o other \o ">") = 0
                /\ CountOf(f, "<li>") = ItemsInTree(tokens[k].items)
                /\ CountOf(f, "</li>") = ItemsInTree(tokens[k].items)
                /\ CountOf(f, "\n<li>b</li>\n</li>") = ItemsWithNestedItems(tokens[k].items)

NestedItemWithoutListElement ==
    /\ Returned
    /\ markdown = "- a\n  - b"
    /\ Len(tokens) = 1
    /\ tokens[1].items[1].items[1].text = "b"
    /\ Contains(html, "<ul>\n<li>a\n<li>b</li>\n</li>\n</ul>")
    /\ CountOf(html, "<ul>") = 1

(***************************************************************************)
(* C19: in highlight of a registered language, before the rules are         *)
(* applied, a single quote is left as it is only if that quote is inside a  *)
(* quoted-string span of the code; every single quote outside the spans and *)
(* every & < > " is replaced by its entity.                                 *)
(***************************************************************************)
\* Position k of s is inside one of the quoted-string spans of s.
InQuotedSpan(s, k) ==
    LET spans == QuotedSpans(s, 0)
    IN \E n \in 1..Len(spans) : spans[n][1] <= k /\ k < spans[n][2]

RECURSIVE EscapeKeeping(_, _, _)
\* s from position k on, with & < > " replaced by their entities and the
\* single quotes replaced except those at the positions of keep.
EscapeKeeping(s, k, keep) ==
    IF k >= Len(s) THEN ""
    ELSE LET c == CharAt(s, k)
         IN (IF c = "'" THEN (IF k \in keep THEN "'" ELSE "&#039;")
             ELSE IF c = "&" THEN "&amp;"
             ELSE IF c = "<" THEN "&lt;"
             ELSE IF c = ">" THEN "&gt;"
             ELSE IF c = "\"" THEN "&quot;"
             ELSE c)
            \o EscapeKeeping(s, k + 1, keep)

QuotePositions(s) == {k \in 0..(Len(s) - 1) : CharAt(s, k) = "'"}

QuoteKeptOnlyInsideItsSpan ==
    pc = "rules" =>
       highlighted
          = EscapeKeeping(hcode, 0, {k \in QuotePositions(hcode) : InQuotedSpan(hcode, k)})

\* What holds of the code: every single quote of the code shares the fate
\* of the first one, kept when the first is inside a span and replaced when
\* it is not; & < > " are always replaced.
QuotesFollowTheFirstQuote ==
    pc = "rules" =>
       LET quotes == QuotePositions(hcode)
           keep == IF quotes = {} THEN {}
                   ELSE IF InQuotedSpan(hcode, Min(quotes)) THEN quotes ELSE {}
       IN highlighted = EscapeKeeping(hcode, 0, keep)

QuoteOutsideSpanKept ==
    /\ pc = "rules"
    /\ hlang \in DOMAIN languages
    /\ hcode = "'''"
    /\ QuotedSpans(hcode, 0) = <<(<<0, 2>>)>>
    /\ ~InQuotedSpan(hcode, 2)
    /\ highlighted = "'''"

(***************************************************************************)
(* C20: every token the tokenize loop pushes has raw equal to the lines it  *)
(* consumed, L[start..end], joined by newlines, and the loop resumes at     *)
(* end + 1; hence the spans of the top-level tokens are disjoint and in     *)
(* document order, and every non-blank line lies in exactly one span.       *)
(***************************************************************************)
\* The iteration entered at lineBefore.idx pushed a token.
TokenPushed == lineBefore.idx >= 0 /\ Len(tokens) = lineBefore.count + 1

\* raw is the lines from the one entered up to where the loop resumes.
RawIsLinesUpToResume ==
    TokenPushed =>
       tokens[Len(tokens)].raw = Join(SliceLines(mdLines, lineBefore.idx, idx), "\n")

RECURSIVE SpansCover(_, _, _)
\* From line k on, the tokens toks span the non-blank lines of L, one
\* after the other, each non-empty span being the lines of the token's raw.
SpansCover(L, toks, k) ==
    IF k >= Len(L) THEN toks = <<>>
    ELSE IF Trim(LineAt(L, k)) = "" THEN SpansCover(L, toks, k + 1)
    ELSE /\ toks # <<>>
         /\ LET n == Len(Split(toks[1].raw, "\n"))
            IN /\ k + n <= Len(L)
               /\ toks[1].raw = Join(SliceLines(L, k, k + n), "\n")
               /\ SpansCover(L, Tail(toks), k + n)

RawIsTheConsumedSpan ==
    /\ lineBefore.idx >= 0 => Len(tokens) \in {lineBefore.count, lineBefore.count + 1}
    /\ RawIsLinesUpToResume
    /\ TokenPushed => idx > lineBefore.idx
    /\ (lineBefore.idx >= 0 /\ ~TokenPushed) =>
          Trim(LineEntered) = "" /\ idx = lineBefore.idx + 1
    /\ pc = "tokenize" => SpansCover(SliceLines(mdLines, 0, idx), tokens, 0)

\* What holds of the code: raw is always the lines between the line entered
\* and the line where the loop resumes, and an iteration consumes at least
\* its line unless that line starts a list and has a line terminator other
\* than "\n" inside, where parseList consumes nothing.
RawIsTheSpanUnlessListConsumesNothing ==
    /\ lineBefore.idx >= 0 => Len(tokens) \in {lineBefore.count, lineBefore.count + 1}
    /\ RawIsLinesUpToResume
    /\ (TokenPushed /\ NoLineTerminator(LineEntered)) => idx > lineBefore.idx
    /\ (TokenPushed /\ ~NoLineTerminator(LineEntered)) =>
          idx = lineBefore.idx \/ tokens[Len(tokens)].type # "list"
    /\ (lineBefore.idx >= 0 /\ ~TokenPushed) =>
          Trim(LineEntered) = "" /\ idx = lineBefore.idx + 1
    /\ (pc = "tokenize" /\ \A k \in 1..Len(mdLines) : NoLineTerminator(mdLines[k])) =>
          SpansCover(SliceLines(mdLines, 0, idx), tokens, 0)

ListTokenWithEmptySpan ==
    /\ pc = "tokenize"
    /\ markdown = "- a\rb"
    /\ lineBefore.idx = 0 /\ idx = 0
    /\ Len(tokens) = 2
    /\ tokens[2].type = "list" /\ tokens[2].raw = "" /\ tokens[2].items = <<>>

(***************************************************************************)
(* C21: tokenize terminates on every input: a sub-parser the loop calls     *)
(* (parseBlockquote, parseCodeBlock, parseList) returns a new index that is *)
(* at least its start index, so the line index is greater after every       *)
(* iteration of the loop than before it, the iterations that end in the     *)
(* catch clause included.                                                   *)
(***************************************************************************)
\* The loop has run an iteration; it entered it at lineBefore.idx.
IterationDone == lineBefore.idx >= 0

\* The new index of the sub-parser the iteration called: the loop adds one.
NewIndex == idx - 1

LineIndexStrictlyIncreases ==
    IterationDone =>
       /\ NewIndex >= lineBefore.idx
       /\ idx > lineBefore.idx

\* What holds of the code: the index increases in every iteration but the
\* one that sends to parseList a line the item pattern does not match to
\* its end (a line terminator other than "\n" inside); there parseList
\* returns startIndex - 1 and the loop enters the same line again.
LineIndexIncreasesUnlessListConsumesNothing ==
    IterationDone =>
       /\ NewIndex >= lineBefore.idx - 1
       /\ NewIndex < lineBefore.idx =>
             /\ LineKind(LineEntered) = "list"
             /\ ~NoLineTerminator(LineEntered)
             /\ tokens[Len(tokens)].items = <<>>
       /\ LineKind(LineEntered) \in {"header", "blockquote", "code", "paragraph", "blank"} =>
             idx > lineBefore.idx
       /\ (\A k \in 1..Len(mdLines) : NoLineTerminator(mdLines[k])) =>
             (idx > lineBefore.idx /\ Len(tokens) <= idx)

SameLineEnteredAgain ==
    /\ pc = "tokenize"
    /\ mdLines = <<"# T", "- a\rb">>
    /\ lineBefore = [idx |-> 1, count |-> 2]
    /\ idx = 1
    /\ Len(tokens) = 3
    /\ tokens[2] = tokens[3]

(***************************************************************************)
(* C22: in a list scan two consecutive item lines with the same indentation *)
(* become siblings in the same items array, and an item never becomes a     *)
(* child of an item whose line is indented as much or more; after every     *)
(* item line currentIndent is not negative and listStack is not empty.      *)
(***************************************************************************)
\* The last iteration of the scan read an item line.
ItemRead == LineScanned /\ ~NotAnItem(LineAt(llines, before.i))

\* The reference of the array that holds item r.
ListHolding(ls, r) ==
    CHOOSE l \in 1..Len(ls.lists) : \E k \in 1..Len(ls.lists[l]) : ls.lists[l][k] = r

\* The items whose items field is the array that holds item r.
ParentsOf(ls, r) == {p \in 1..Len(ls.items) : ls.items[p].sub = ListHolding(ls, r)}

\* The item just read and the item of the line before it, equally indented,
\* are in the same array; the item just read is deeper than its parent.
SiblingsAndChildrenAt(indent) ==
    LET r == Len(scan.items)
    IN /\ (/\ before.i >= 1
           /\ ~NotAnItem(LineAt(llines, before.i - 1))
           /\ LeadingSpace(LineAt(llines, before.i - 1)) = indent) =>
             ListHolding(scan, r - 1) = ListHolding(scan, r)
       /\ \A p \in ParentsOf(scan, r) : LeadingSpace(scan.items[p].tok.raw) < indent

SameIndentationMakesSiblings ==
    ItemRead =>
       /\ scan.currentIndent >= 0
       /\ Len(scan.listStack) >= 1
       /\ SiblingsAndChildrenAt(LeadingSpace(LineAt(llines, before.i)))

\* Every item line up to line upto is indented by an even number of spaces.
EvenIndentation(upto) ==
    \A k \in 0..upto :
       NotAnItem(LineAt(llines, k)) \/ LeadingSpace(LineAt(llines, k)) % 2 = 0

\* What holds of the code: listStack is never empty and currentIndent never
\* below -1; the claim holds as long as every item line is indented by an
\* even number of spaces.
EvenIndentationMakesSiblings ==
    /\ Len(scan.listStack) >= 1
    /\ scan.currentIndent >= -1
    /\ (ItemRead /\ EvenIndentation(before.i)) =>
          /\ scan.currentIndent >= 0
          /\ SiblingsAndChildrenAt(LeadingSpace(LineAt(llines, before.i)))

NegativeIndentNestsEqualLines ==
    /\ pc = "ldone"
    /\ llines = <<"- a", " - a", "- a", "- a">>
    /\ before.currentIndent = -1
    /\ scan.currentIndent = 0
    /\ Len(scan.items) = 4
    /\ scan.items[3].sub = ListHolding(scan, 4)
    /\ ListHolding(scan, 3) # ListHolding(scan, 4)

(***************************************************************************)
(* C23: no list item is lost.  Every item line the scan consumed gives a    *)
(* list_item that can be reached from the returned list token through the   *)
(* items fields, and the reachable items come in the order of their lines,  *)
(* also when the first line of the list is indented.                        *)
(***************************************************************************)
RECURSIVE ReachableRaws(_)
\* The raw fields of the items of a token tree, an item before its items.
ReachableRaws(items) ==
    IF Len(items) = 0 THEN <<>>
    ELSE <<items[1].raw>>
         \o (IF "items" \in DOMAIN items[1] THEN ReachableRaws(items[1].items) ELSE <<>>)
         \o ReachableRaws(Tail(items))

\* The item lines among the lines the scan consumed, in order.
ConsumedItemLines == SelectSeq(SubSeq(llines, 1, scan.i), LAMBDA l : ~NotAnItem(l))

EveryItemReachableInOrder ==
    pc = "ldone" =>
       ReachableRaws(ListResult(llines, 0, scan).token.items) = ConsumedItemLines

\* What holds of the code: every consumed item line gives one list_item of
\* the scan, in order; the items of the token are all of them when the
\* first line is not indented; when it is, the first item is in an array
\* that no items field holds, and fewer items are reachable than consumed.
ItemsReachableUnlessFirstLineIndented ==
    /\ Len(scan.items) = Len(ConsumedItemLines)
    /\ \A r \in 1..Len(scan.items) : scan.items[r].tok.raw = ConsumedItemLines[r]
    /\ pc = "ldone" =>
          LET reachable == ReachableRaws(ListResult(llines, 0, scan).token.items)
          IN IF LeadingSpace(llines[1]) = 0
             THEN reachable = ConsumedItemLines
             ELSE /\ ListHolding(scan, 1) = 2
                  /\ ParentsOf(scan, 1) = {}
                  /\ Len(reachable) < Len(ConsumedItemLines)

IndentedFirstLineLosesItems ==
    /\ pc = "ldone"
    /\ llines = <<"  - a", "  - a">>
    /\ scan.i = 2
    /\ Len(scan.items) = 2
    /\ ListResult(llines, 0, scan).token.items = <<>>
    /\ ListResult(llines, 0, scan).token.raw = "  - a\n  - a"

(***************************************************************************)
(* C24: the raw fields of the tokens parseInline returns, concatenated in   *)
(* order, are the input line, character for character; no text token is    *)
(* empty; and an iteration that recognizes a construct (bold, italic, code, *)
(* link) leaves the scan right after the raw span of the token it pushed.   *)
(***************************************************************************)
RECURSIVE ConcatRaw(_)
ConcatRaw(toks) == IF Len(toks) = 0 THEN "" ELSE toks[1].raw \o ConcatRaw(Tail(toks))

\* The last iteration of the scan took a branch that recognizes a construct.
ConstructRecognized == prev # -1 /\ InlineBranch(text, prev) # "char"

RawsConcatenateToLine ==
    /\ pc = "scan" => ConcatRaw(itokens) \o current = Slice(text, 0, i)
    /\ pc = "idone" => ConcatRaw(itokens) = text
    /\ \A k \in 1..Len(itokens) :
          /\ itokens[k].raw # ""
          /\ itokens[k].type = "text" => itokens[k].text # "" /\ itokens[k].text = itokens[k].raw
    /\ ConstructRecognized =>
          LET token == itokens[Len(itokens)]
          IN /\ token.type \in {"bold", "italic", "code", "link"}
             /\ token.raw = Slice(text, prev, i)
             /\ i = prev + Len(token.raw)
             /\ current = ""
    /\ (prev # -1 /\ ~ConstructRecognized) =>
          i = prev + 1 /\ current # ""

TextBetweenConstructsKept ==
    /\ pc = "idone"
    /\ text = "a*b*c**a**"
    /\ Len(itokens) = 4
    /\ itokens[1].raw = "a" /\ itokens[2].raw = "*b*" /\ itokens[3].raw = "c"
    /\ itokens[4] = [type |-> "bold", raw |-> "**a**", text |-> "a"]

====
